---- MODULE Spec2Model ----
(***************************************************************************)
(* Toggl2Timeshit: the refresh orchestrator (src/src/app.rs), its quota    *)
(* ledger and cache store (src/src/storage.rs), modelled as a state        *)
(* machine.  A handler of the event loop (src/src/main.rs) runs as a       *)
(* sequence of steps, one per remote call, with `pc` its position; the     *)
(* outcome of a remote call is an input of the step that issues it.        *)
(*                                                                         *)
(* Encodings.  Option<T> is a set with at most one element.  HashMap<K,V>  *)
(* is a function whose DOMAIN is the set of present keys.  Vec<T> of       *)
(* workspaces, projects, clients and time entries is a set where only      *)
(* membership is read, and a sequence where order is read.  An RFC-3339    *)
(* string is <<"ts", n>> (the instant or calendar date n it denotes in the *)
(* local zone) or <<"raw", n>> (a string that does not parse).  File       *)
(* writes succeed (the home directory exists).                             *)
(*                                                                         *)
(* The pure functions have specifications of their own, each applying the  *)
(* function to inputs drawn by its initial predicate: round_seconds        *)
(* (src/src/rounding.rs) in SpecRound, group_entries (src/src/grouping.rs) *)
(* in SpecGroup, build_rollups (src/src/rollups.rs) in SpecRollups and the *)
(* targets and overtime of the rollups view (src/src/ui.rs) in             *)
(* SpecTargets.                                                            *)
(* i64 has IntWidth bits; an f64 number of hours is the pair of its        *)
(* seconds and 3600; a NaiveDate of the rollups is a day number.           *)
(***************************************************************************)
EXTENDS Integers, Sequences, FiniteSets, TLC

\* ------------------------------------------------------------------ bounds
\* Calendar dates a date range, a cache key or an entry can name: 1..MaxDay.
MaxDay == 2
\* Workspace ids the remote can return: 1..MaxWs.
MaxWs == 2
\* Instants of the wall clock: 1..MaxNow.
MaxNow == 2
\* Instants per calendar day of the wall clock.
TicksPerDay == 1
\* User requests (refresh, date change, login, re-fetch) in one run.
MaxOps == 2
\* A ledger read at start-up has used_calls in {0} \cup (CALL_LIMIT-MaxLeft)..CALL_LIMIT.
MaxLeft == 2

\* --------------------------------------------------------------- constants
CALL_LIMIT == 30
QUOTA_FILE_VERSION == 2
CACHE_FILE_VERSION == 1

\* ----------------------------------------------------------------- helpers
Some(x) == {x}
None == {}
The(s) == CHOOSE x \in s : TRUE
Put(f, k, v) == [x \in (DOMAIN f) \cup {k} |-> IF x = k THEN v ELSE f[x]]
EmptyMap == [x \in {} |-> 0]
Min(a, b) == IF a <= b THEN a ELSE b
Days == 1..MaxDay
WsIds == 1..MaxWs

\* The calendar date of instant t of the wall clock.
DayOf(t) == (t - 1) \div TicksPerDay + 1

\* ------------------------------------------------------- strings and dates
\* Local::now().to_rfc3339(), DateTime::to_rfc3339()
Rfc3339(n) == <<"ts", n>>
RawString(n) == <<"raw", n>>
\* parse_cached_time: Some(instant) when the string parses.
parse_cached_time(s) == IF s[1] = "ts" THEN Some(s[2]) ELSE None
\* parse_rfc3339_date: Some(local calendar date) when the string parses.
parse_rfc3339_date(s) == IF s[1] = "ts" THEN Some(s[2]) ELSE None
\* DateRange::from_bounds(start, end).as_rfc3339(): local 00:00:00 of start and
\* 23:59:59 of end; each reads back (parse_rfc3339_date) as its own date.
as_rfc3339(range) == <<Rfc3339(range[1]), Rfc3339(range[2])>>
\* storage::cache_key: "{workspace_id}|{start}|{end}"
cache_key(workspace_id, start, end) == <<workspace_id, start, end>>
\* parse_cache_key_bounds: Some((workspace, start date, end date)) or None.
parse_cache_key_bounds(key) ==
    IF parse_rfc3339_date(key[2]) = None \/ parse_rfc3339_date(key[3]) = None
    THEN None
    ELSE Some(<<key[1], The(parse_rfc3339_date(key[2])), The(parse_rfc3339_date(key[3]))>>)
\* parse_entry_date
parse_entry_date(entry) == parse_rfc3339_date(entry.start)
\* date_span(start, end): the dates start..end in order.
date_span(start, end) == [i \in 1..(IF end < start THEN 0 ELSE end - start + 1) |-> start + i - 1]

\* ------------------------------------------------------------ quota ledger
QuotaFile(version, date, used_calls) ==
    [version |-> version, date |-> date, used_calls |-> used_calls]

\* storage::normalize_quota
normalize_quota_mut_version(quota, today) ==
    IF quota.version # QUOTA_FILE_VERSION
    THEN [quota EXCEPT !.version = QUOTA_FILE_VERSION, !.used_calls = 0]
    ELSE quota
\* normalize_quota that moves the date and keeps the count.
normalize_quota_keeps_count(quota, today) ==
    [normalize_quota_mut_version(quota, today) EXCEPT !.date = today]
normalize_quota(quota, today) ==
    LET q == normalize_quota_mut_version(quota, today)
    IN  IF q.date # today THEN [q EXCEPT !.date = today, !.used_calls = 0] ELSE q

\* storage::read_quota: the file (an Option) normalized, or a fresh ledger.
read_quota(file, today) ==
    IF file # None THEN normalize_quota(The(file), today)
    ELSE QuotaFile(QUOTA_FILE_VERSION, today, 0)

\* u32 saturating arithmetic.  saturating_add saturates at u32::MAX, which no
\* ledger of the model comes near (used_calls is at most CALL_LIMIT + 1 here).
saturating_sub(a, b) == IF a >= b THEN a - b ELSE 0
saturating_add(a, b) == a + b

\* App::quota_remaining
\* quota_remaining that still reports one call left at the limit.
quota_remaining_one_over(q) == saturating_sub(CALL_LIMIT + 1, q.used_calls)
quota_remaining(q) == saturating_sub(CALL_LIMIT, q.used_calls)
\* consume_quota without `.min(CALL_LIMIT)`.
consume_quota_uncapped(q) == [q EXCEPT !.used_calls = saturating_add(q.used_calls, 1)]
\* App::consume_quota (the ledger after the call; the caller writes it through)
consume_quota(q) == [q EXCEPT !.used_calls = Min(saturating_add(q.used_calls, 1), CALL_LIMIT)]
\* ensure_quota_today with the date test lost: the ledger is reset on every call.
ensure_quota_today_always(q, today) == [q EXCEPT !.date = today, !.used_calls = 0]
\* App::ensure_quota_today
ensure_quota_today(q, today) ==
    IF q.date # today THEN [q EXCEPT !.date = today, !.used_calls = 0] ELSE q


\* ------------------------------------------------------------- cache store
\* A time entry: start is an RFC-3339 string, stop = FALSE is a running entry
\* (no stop timestamp), project_id = 0 is no project, rev stands for the
\* description and duration.
TimeEntry(id, start, stop, project_id, rev) ==
    [id |-> id, start |-> start, stop |-> stop, project_id |-> project_id, rev |-> rev]
\* A project: client_id = 0 is no client, client_name says whether the
\* denormalized client name is present.
Project(id, client_id, client_name) ==
    [id |-> id, client_id |-> client_id, client_name |-> client_name]

CachedData(data, fetched_at) == [data |-> data, fetched_at |-> fetched_at]

\* storage::new_cache
new_cache(token_hash) ==
    [version |-> CACHE_FILE_VERSION, token_hash |-> token_hash, workspaces |-> None,
     projects |-> EmptyMap, clients |-> EmptyMap, time_entries |-> EmptyMap]

\* read_cache without the version test.
read_cache_any_version(file) == file

\* storage::read_cache: a file of another schema version reads as absent.
read_cache(file) ==
    IF file # None /\ The(file).version = CACHE_FILE_VERSION THEN file ELSE None

\* App::cached_workspaces, cached_projects, cached_clients, cached_time_entries
\* (cache is the Option<CacheFile> field of the App)
cached_workspaces(cache) == IF cache = None THEN None ELSE The(cache).workspaces
cached_projects(cache, workspace_id) ==
    IF cache # None /\ workspace_id \in DOMAIN The(cache).projects
    THEN Some(The(cache).projects[workspace_id]) ELSE None
cached_clients(cache, workspace_id) ==
    IF cache # None /\ workspace_id \in DOMAIN The(cache).clients
    THEN Some(The(cache).clients[workspace_id]) ELSE None
cached_time_entries(cache, workspace_id, start, end) ==
    IF cache # None /\ cache_key(workspace_id, start, end) \in DOMAIN The(cache).time_entries
    THEN Some(The(cache).time_entries[cache_key(workspace_id, start, end)]) ELSE None

\* All orders in which a HashMap with key set S can be iterated.
ScanOrders(S) ==
    {o \in [1..Cardinality(S) -> S] : \A i, j \in 1..Cardinality(S) : i # j => o[i] # o[j]}

\* RangeSkipped without the workspace test.
RangeSkipped_any_workspace(key, workspace_id, start_date, end_date) ==
    \/ parse_cache_key_bounds(key) = None
    \/ LET b == The(parse_cache_key_bounds(key))
       IN  b[3] < start_date \/ b[2] > end_date
\* Whether the range loop of cached_time_entries_for_range skips a key.
RangeSkipped(key, workspace_id, start_date, end_date) ==
    \/ parse_cache_key_bounds(key) = None
    \/ LET b == The(parse_cache_key_bounds(key))
       IN  b[1] # workspace_id \/ b[3] < start_date \/ b[2] > end_date

\* The inner loop: entries_by_id.insert(entry.id, entry) for every entry of one
\* cached list whose own date lies in [start_date, end_date].
InsertInRange(by_id, data, start_date, end_date) ==
    LET hit == {e \in data : /\ parse_entry_date(e) # None
                             /\ The(parse_entry_date(e)) >= start_date
                             /\ The(parse_entry_date(e)) <= end_date}
        ids == {e.id : e \in hit}
    IN  [i \in (DOMAIN by_id) \cup ids |->
            IF i \in ids THEN CHOOSE e \in hit : e.id = i ELSE by_id[i]]

\* The bookkeeping of the latest fetch timestamp after visiting one range.
LatestAt(acc, fetched_at) ==
    IF parse_cached_time(fetched_at) # None
    THEN IF acc.at # None /\ The(parse_cached_time(fetched_at)) <= The(acc.at)
         THEN acc.at ELSE parse_cached_time(fetched_at)
    ELSE acc.at
LatestRaw(acc, fetched_at) ==
    IF parse_cached_time(fetched_at) # None THEN acc.raw ELSE Some(fetched_at)

\* The loop over cache.time_entries, visiting the keys in the order `order`.
RECURSIVE ScanRanges(_, _, _, _, _, _, _)
ScanRanges(time_entries, order, i, workspace_id, start_date, end_date, acc) ==
    IF i > Len(order) THEN acc
    ELSE LET key == order[i]
             cached == time_entries[key]
         IN  IF RangeSkipped(key, workspace_id, start_date, end_date)
             THEN ScanRanges(time_entries, order, i + 1, workspace_id,
                             start_date, end_date, acc)
             ELSE ScanRanges(time_entries, order, i + 1, workspace_id,
                             start_date, end_date,
                             [by_id |-> InsertInRange(acc.by_id, cached.data,
                                                      start_date, end_date),
                              at |-> LatestAt(acc, cached.fetched_at),
                              raw |-> LatestRaw(acc, cached.fetched_at)])

\* cached_time_entries_for_range without `if entries_by_id.is_empty()`.
cached_time_entries_for_range_of_nothing(cache, workspace_id, start, end, order, now) ==
    IF cached_time_entries(cache, workspace_id, start, end) # None
    THEN cached_time_entries(cache, workspace_id, start, end)
    ELSE IF parse_rfc3339_date(start) = None \/ parse_rfc3339_date(end) = None
              \/ cache = None
    THEN None
    ELSE LET acc == ScanRanges(The(cache).time_entries, order, 1, workspace_id,
                               The(parse_rfc3339_date(start)),
                               The(parse_rfc3339_date(end)),
                               [by_id |-> EmptyMap, at |-> None, raw |-> None])
         IN  Some(CachedData(
                     {acc.by_id[i] : i \in DOMAIN acc.by_id},
                     IF acc.at # None THEN Rfc3339(The(acc.at))
                     ELSE IF acc.raw # None THEN The(acc.raw)
                     ELSE Rfc3339(now)))
\* App::cached_time_entries_for_range, the map being iterated in `order`;
\* `now` is the clock read by the last fallback of the timestamp.
cached_time_entries_for_range(cache, workspace_id, start, end, order, now) ==
    IF cached_time_entries(cache, workspace_id, start, end) # None
    THEN cached_time_entries(cache, workspace_id, start, end)
    ELSE IF parse_rfc3339_date(start) = None \/ parse_rfc3339_date(end) = None
              \/ cache = None
    THEN None
    ELSE LET acc == ScanRanges(The(cache).time_entries, order, 1, workspace_id,
                               The(parse_rfc3339_date(start)),
                               The(parse_rfc3339_date(end)),
                               [by_id |-> EmptyMap, at |-> None, raw |-> None])
         IN  IF DOMAIN acc.by_id = {} THEN None
             ELSE Some(CachedData(
                     {acc.by_id[i] : i \in DOMAIN acc.by_id},
                     IF acc.at # None THEN Rfc3339(The(acc.at))
                     ELSE IF acc.raw # None THEN The(acc.raw)
                     ELSE Rfc3339(now)))

\* The keys of the in-memory cache's time-entry map.
TimeEntryKeys(cache) == IF cache = None THEN {} ELSE DOMAIN The(cache).time_entries

\* ------------------------------------------------------- rebuild_rollups
\* App::rollup_bounds: month_start and month_end (year_start and year_end) of
\* the active range; the days of the app model lie in one month.
rollup_bounds(range) == <<1, MaxDay>>

\* entries_by_id.insert(entry.id, entry.clone()) for every entry of `entries`
\* that passes `keep`, a function of the entry's stop flag.
insert_by_id(by_id, entries, keep) ==
    LET kept == {e \in entries : keep[e.stop]}
        ids == {e.id : e \in kept}
    IN  [i \in (DOMAIN by_id) \cup ids |->
            IF i \in ids THEN CHOOSE e \in kept : e.id = i ELSE by_id[i]]

\* `if entry.stop.is_some()`
stop_is_some == [stop \in BOOLEAN |-> stop]
\* The test left out.
stop_is_any == [stop \in BOOLEAN |-> TRUE]

\* App::rebuild_rollups up to the call of build_rollups, with a workspace
\* selected: the entries of every cached range of the workspace that meets the
\* rollup bounds (collect_cached_entries_for_range, the map iterated in
\* `order`), then self.time_entries, inserted by id when `keep` passes them.
merged_rollup_entries(cache, workspace_id, entries, bounds, order, keep) ==
    LET kept_ranges == IF cache = None THEN EmptyMap
                       ELSE [key \in DOMAIN The(cache).time_entries |->
                               [The(cache).time_entries[key] EXCEPT
                                   !.data = {e \in @ : keep[e.stop]}]]
        cached == IF cache = None THEN EmptyMap
                  ELSE ScanRanges(kept_ranges, order, 1, workspace_id, bounds[1], bounds[2],
                                  [by_id |-> EmptyMap, at |-> None, raw |-> None]).by_id
        by_id == insert_by_id(cached, entries, keep)
    IN  {by_id[i] : i \in DOMAIN by_id}

rollup_entries_unfiltered(cache, workspace, entries, range, order) ==
    IF workspace = None THEN entries
    ELSE merged_rollup_entries(cache, The(workspace), entries, rollup_bounds(range),
                               order, stop_is_any)
\* App::rebuild_rollups: the entries handed to build_rollups.  Without a
\* selected workspace they are self.time_entries as they are.
rollup_entries(cache, workspace, entries, range, order) ==
    IF workspace = None THEN entries
    ELSE merged_rollup_entries(cache, The(workspace), entries, rollup_bounds(range),
                               order, stop_is_some)

\* cache_mut whose fresh cache is keyed by no token.
cache_mut_unkeyed(cache, token_hash) ==
    IF cache = None THEN new_cache("") ELSE The(cache)
\* App::cache_mut: the cache, created empty under the current hash if absent
\* (token_hash.unwrap_or_default(): the empty string when there is none).
cache_mut(cache, token_hash) ==
    IF cache = None
    THEN new_cache(IF token_hash = None THEN "" ELSE The(token_hash))
    ELSE The(cache)

\* App::update_cache_workspaces / projects / clients / time_entries: the
\* in-memory cache after the write (the caller writes it through to the file).
update_cache_workspaces(cache, token_hash, workspaces, now) ==
    Some([cache_mut(cache, token_hash) EXCEPT
            !.workspaces = Some(CachedData(workspaces, Rfc3339(now)))])
update_cache_projects(cache, token_hash, workspace_id, projects, now) ==
    Some([cache_mut(cache, token_hash) EXCEPT
            !.projects = Put(@, workspace_id, CachedData(projects, Rfc3339(now)))])
update_cache_clients(cache, token_hash, workspace_id, clients, now) ==
    Some([cache_mut(cache, token_hash) EXCEPT
            !.clients = Put(@, workspace_id, CachedData(clients, Rfc3339(now)))])
\* update_cache_time_entries inserting only under a key not yet stored
\* (entry().or_insert() for insert()).
update_cache_time_entries_if_absent(cache, token_hash, workspace_id, start, end, entries, now) ==
    Some([cache_mut(cache, token_hash) EXCEPT
            !.time_entries = IF cache_key(workspace_id, start, end) \in DOMAIN @ THEN @
                             ELSE Put(@, cache_key(workspace_id, start, end),
                                      CachedData(entries, Rfc3339(now)))])
\* update_cache_time_entries that adds the list written to the list stored.
update_cache_time_entries_merging(cache, token_hash, workspace_id, start, end, entries, now) ==
    Some([cache_mut(cache, token_hash) EXCEPT
            !.time_entries = Put(@, cache_key(workspace_id, start, end),
                                 CachedData(IF cache_key(workspace_id, start, end) \in DOMAIN @
                                            THEN @[cache_key(workspace_id, start, end)].data
                                                 \cup entries
                                            ELSE entries,
                                            Rfc3339(now)))])
\* update_cache_time_entries that keeps the stored entry, timestamp included,
\* when the list written is the list stored.
update_cache_time_entries_keeping_stamp(cache, token_hash, workspace_id, start, end, entries, now) ==
    Some([cache_mut(cache, token_hash) EXCEPT
            !.time_entries = IF cache_key(workspace_id, start, end) \in DOMAIN @
                                /\ @[cache_key(workspace_id, start, end)].data = entries
                             THEN @
                             ELSE Put(@, cache_key(workspace_id, start, end),
                                      CachedData(entries, Rfc3339(now)))])
update_cache_time_entries(cache, token_hash, workspace_id, start, end, entries, now) ==
    Some([cache_mut(cache, token_hash) EXCEPT
            !.time_entries = Put(@, cache_key(workspace_id, start, end),
                                 CachedData(entries, Rfc3339(now)))])

\* storage::hash_token (SHA-256 hex digest: a different string per token)
hash_token(token) == "sha256:" \o token

\* missing_project_ids without the filter on the ids already known.
missing_project_ids_all_referenced(entries, projects) ==
    {e.project_id : e \in {x \in entries : x.project_id # 0}}
\* missing_project_ids: project ids referenced by entries and absent from projects.
missing_project_ids(entries, projects) ==
    {e.project_id : e \in {x \in entries : x.project_id # 0}} \ {p.id : p \in projects}


\* ------------------------------------------------------------------- state
VARIABLES
    now,                 \* the wall clock (Local::now())
    quota_file,          \* ~/.toggl2tsc-quota.json, an Option<QuotaFile>
    cache_file,          \* ~/.toggl2tsc-cache.json, an Option<CacheFile>
    mode, needs_refresh, status, toast,
    token, token_hash, cache, quota,
    workspace_list, selected_workspace, date_range,
    projects, time_entries, client_names, last_refresh,
    refresh_intent, refresh_resume_mode, refetch_plan,
    pc,                  \* position inside the running handler, "idle" between handlers
    loc,                 \* the running handler's local variables
    calls,               \* the remote calls the running (or last) handler issued
    ops                  \* user requests so far

env_vars == <<now, quota_file, cache_file>>
view_vars == <<workspace_list, selected_workspace, date_range, projects,
               time_entries, client_names, last_refresh>>
vars == <<now, quota_file, cache_file, mode, needs_refresh, status, toast,
          token, token_hash, cache, quota, workspace_list, selected_workspace,
          date_range, projects, time_entries, client_names, last_refresh,
          refresh_intent, refresh_resume_mode, refetch_plan, pc, loc, calls, ops>>

today == DayOf(now)

Tokens == {"tokA", "tokB"}
Ranges == {r \in Days \X Days : r[1] <= r[2]}
RemoteErrors == {"Unauthorized", "PaymentRequired", "RateLimited", "ServerError", "Network"}

\* ------------------------------------------------------- the remote's data
\* Workspace lists fetch_workspaces can return.
RemoteWorkspaces == {{}} \cup {1..n : n \in WsIds}
\* Project lists fetch_projects can return.
RemoteProjects ==
    {{}, {Project(1, 1, FALSE)}, {Project(1, 1, TRUE), Project(2, 0, FALSE)}}
\* Client lists fetch_clients can return.
RemoteClients == {{}, {1}}
\* The entries on the server at some time: one snapshot per revision.  Entry 1
\* is edited between the snapshots, entry 2 names project 2, entry 3 is running.
ServerSnapshot(rev) ==
    IF rev = 0 THEN {}
    ELSE {TimeEntry(1, Rfc3339(1), TRUE, 1, rev)} \cup
         (IF rev = 1 THEN {TimeEntry(2, Rfc3339(MaxDay), TRUE, 2, 1),
                           TimeEntry(3, Rfc3339(MaxDay), FALSE, 0, 1)}
          ELSE {})
\* fetch_time_entries(start, end): the entries of a snapshot that start in the range.
RemoteTimeEntries(start, end) ==
    {{e \in ServerSnapshot(rev) : /\ The(parse_rfc3339_date(e.start)) >= The(parse_rfc3339_date(start))
                                  /\ The(parse_rfc3339_date(e.start)) <= The(parse_rfc3339_date(end))}
        : rev \in 0..2}

\* ------------------------------------------------------- files at start-up
\* A cache file left by an earlier run under token tokA, fetched at an earlier
\* instant; one of another schema version; one of another token.
EarlierCache(version, tok, wss) ==
    [version |-> version, token_hash |-> hash_token(tok),
     workspaces |-> Some(CachedData(wss, Rfc3339(0))),
     projects |-> Put(EmptyMap, 1, CachedData({Project(1, 1, FALSE)}, Rfc3339(0))),
     clients |-> EmptyMap,
     time_entries |-> Put(EmptyMap, cache_key(1, Rfc3339(1), Rfc3339(1)),
                          CachedData({TimeEntry(1, Rfc3339(1), TRUE, 1, 1)}, Rfc3339(0)))]
StartCacheFiles ==
    {None, Some(EarlierCache(CACHE_FILE_VERSION, "tokA", {1})),
     Some(EarlierCache(CACHE_FILE_VERSION + 1, "tokA", {1})),
     Some(EarlierCache(CACHE_FILE_VERSION, "tokB", {1}))}
StartQuotaFiles ==
    {None}
    \cup {Some(QuotaFile(QUOTA_FILE_VERSION, DayOf(1), u)) :
            u \in {0} \cup ((CALL_LIMIT - MaxLeft)..CALL_LIMIT)}
    \cup {Some(QuotaFile(QUOTA_FILE_VERSION, DayOf(1) - 1, CALL_LIMIT)),
          Some(QuotaFile(QUOTA_FILE_VERSION - 1, DayOf(1), CALL_LIMIT))}

\* format_day_spans: the days, sorted and without duplicates, as the runs of
\* consecutive days <<first, last>> they form; <<>> stands for "none".
RECURSIVE DaySpans(_, _)
DaySpans(days, spans) ==
    IF days = {} THEN spans
    ELSE LET first == CHOOSE d \in days : \A x \in days : d <= x
             last == CHOOSE d \in days :
                        /\ d >= first
                        /\ \A x \in first..d : x \in days
                        /\ d + 1 \notin days
         IN  DaySpans({d \in days : d > last}, Append(spans, <<first, last>>))
format_day_spans(days) == DaySpans({days[i] : i \in DOMAIN days}, <<>>)

\* Toast: the message set_toast shows.  A re-fetch report carries the number
\* of days fetched and of the plan and, when every day was fetched, the plan's
\* scope label (the day or the period, held as its first and last day), and
\* else the spans cached and skipped and the stop reason.
Toast(message, is_error) ==
    [message |-> message, is_error |-> is_error, count |-> 0, total |-> 0,
     scope |-> <<>>, cached |-> <<>>, reason |-> "", skipped |-> <<>>]
NoToast == Toast("none", FALSE)

LocIdle == [allow_api |-> FALSE, manual_refresh |-> FALSE, resume_mode |-> None,
            cache_reason |-> None, cache_timestamp |-> None, workspace |-> 0,
            projects |-> {}, client_names |-> {}, entries |-> {},
            missing |-> {}, refreshed |-> {}, cache_changed |-> FALSE,
            index |-> 0, fetched_days |-> <<>>, stop_reason |-> None]

\* App::new: the state after construction, over the files found at start-up.
\* read_token() is the token file (or the environment variable), or None
\* under the login subcommand.
AppNew(read_token, cache0, quota0, range0) ==
    /\ now = 1
    /\ quota_file = quota0
    /\ cache_file = cache0
    /\ token = read_token
    /\ mode = IF read_token # None THEN "Loading" ELSE "Login"
    /\ needs_refresh = (read_token # None)
    /\ token_hash = IF read_token # None THEN Some(hash_token(The(read_token))) ELSE None
    /\ cache = IF read_token # None /\ read_cache(cache0) # None
                  /\ The(read_cache(cache0)).token_hash = hash_token(The(read_token))
               THEN read_cache(cache0) ELSE None
    /\ quota = read_quota(quota0, DayOf(1))
    /\ status = "none"
    /\ toast = NoToast
    /\ workspace_list = {}
    /\ selected_workspace = None
    /\ date_range = range0
    /\ projects = {}
    /\ time_entries = {}
    /\ client_names = {}
    /\ last_refresh = None
    /\ refresh_intent = "CacheOnly"
    /\ refresh_resume_mode = None
    /\ refetch_plan = None
    /\ pc = "idle"
    /\ loc = LocIdle
    /\ calls = <<>>
    /\ ops = 0

Init ==
    \E read_token \in {None, Some("tokA")}, cache0 \in StartCacheFiles,
       quota0 \in StartQuotaFiles, range0 \in Ranges :
        AppNew(read_token, cache0, quota0, range0)

\* ------------------------------------------------------------- user events
\* main: a key event is read only between handlers, after a pending refresh ran.
Polling == pc = "idle" /\ ~needs_refresh
\* The bound on the user requests that start a refresh or a re-fetch.
Budget == ops < MaxOps

\* The wall clock advances.  A handler runs within one instant of the clock.
Tick ==
    /\ pc = "idle"
    /\ now < MaxNow
    /\ now' = now + 1
    /\ UNCHANGED <<quota_file, cache_file, mode, needs_refresh, status, toast,
                   token, token_hash, cache, quota, workspace_list, selected_workspace,
                   date_range, projects, time_entries, client_names, last_refresh,
                   refresh_intent, refresh_resume_mode, refetch_plan, pc, loc, calls, ops>>

\* App::trigger_refresh, key 'r' in handle_dashboard_input
trigger_refresh ==
    /\ Polling /\ Budget
    /\ mode \in {"Dashboard", "Error"}
    /\ mode' = "Loading"
    /\ refresh_intent' = "ForceApi"
    /\ needs_refresh' = TRUE
    /\ ops' = ops + 1
    /\ UNCHANGED <<env_vars, view_vars, status, toast, token, token_hash, cache, quota,
                   refresh_resume_mode, refetch_plan, pc, loc, calls>>

\* App::set_date_range: keys 't', 'y', '[', ']' in handle_dashboard_input and
\* Enter in handle_date_input.
set_date_range ==
    /\ Polling /\ Budget
    /\ mode \in {"Dashboard", "Error"}
    /\ \E range \in Ranges :
        /\ date_range' = range
        /\ mode' = "Loading"
        /\ refresh_intent' = "CacheOnly"
        /\ refresh_resume_mode' = None
        /\ needs_refresh' = TRUE
    /\ ops' = ops + 1
    /\ UNCHANGED <<env_vars, workspace_list, selected_workspace, projects, time_entries,
                   client_names, last_refresh, status, toast, token, token_hash, cache,
                   quota, refetch_plan, pc, loc, calls>>

\* Enter in App::handle_login_input with a non-empty input.
handle_login_input ==
    /\ Polling /\ Budget
    /\ mode = "Login"
    /\ \E input \in Tokens :
        /\ token' = Some(input)
        /\ token_hash' = Some(hash_token(input))
        /\ cache' = IF read_cache(cache_file) # None
                       /\ The(read_cache(cache_file)).token_hash = hash_token(input)
                    THEN read_cache(cache_file) ELSE None
    /\ mode' = "Loading"
    /\ refresh_intent' = "CacheOnly"
    /\ needs_refresh' = TRUE
    /\ ops' = ops + 1
    /\ UNCHANGED <<env_vars, view_vars, status, toast, quota, refresh_resume_mode,
                   refetch_plan, pc, loc, calls>>

\* Enter in App::handle_workspace_input on a workspace of the list.
handle_workspace_input ==
    /\ Polling /\ Budget
    /\ mode = "WorkspaceSelect"
    /\ \E workspace \in workspace_list :
        selected_workspace' = Some(workspace)
    /\ mode' = "Loading"
    /\ refresh_intent' = IF refresh_intent # "ForceApi" THEN "CacheOnly" ELSE refresh_intent
    /\ needs_refresh' = TRUE
    /\ ops' = ops + 1
    /\ UNCHANGED <<env_vars, workspace_list, date_range, projects, time_entries,
                   client_names, last_refresh, status, toast, token, token_hash, cache,
                   quota, refresh_resume_mode, refetch_plan, pc, loc, calls>>

\* App::enter_settings (key 's') and Esc in handle_settings_category_input
enter_settings ==
    /\ Polling
    /\ mode \in {"Dashboard", "Error"}
    /\ mode' = "Settings"
    /\ status' = "none"
    /\ UNCHANGED <<env_vars, view_vars, needs_refresh, toast, token, token_hash, cache,
                   quota, refresh_intent, refresh_resume_mode, refetch_plan, pc, loc,
                   calls, ops>>
exit_settings ==
    /\ Polling
    /\ mode = "Settings"
    /\ mode' = "Dashboard"
    /\ UNCHANGED <<env_vars, view_vars, needs_refresh, status, toast, token, token_hash,
                   cache, quota, refresh_intent, refresh_resume_mode, refetch_plan, pc,
                   loc, calls, ops>>

\* App::save_setting_item, SettingsItem::TogglToken with a non-empty input:
\* the cache is the file's when it is of the new token, and else a new one.
settings_update_token ==
    /\ Polling /\ Budget
    /\ mode = "Settings"
    /\ \E input \in Tokens :
        /\ token' = Some(input)
        /\ token_hash' = Some(hash_token(input))
        /\ cache' = IF read_cache(cache_file) # None
                       /\ The(read_cache(cache_file)).token_hash = hash_token(input)
                    THEN read_cache(cache_file) ELSE Some(new_cache(hash_token(input)))
    /\ status' = "Toggl token updated."
    /\ toast' = Toast("Token updated.", FALSE)
    /\ mode' = "Loading"
    /\ refresh_intent' = "CacheOnly"
    /\ needs_refresh' = TRUE
    /\ ops' = ops + 1
    /\ UNCHANGED <<env_vars, view_vars, quota, refresh_resume_mode, refetch_plan, pc, loc,
                   calls>>

\* App::enter_rollups (key 'o') and App::exit_rollups (Esc)
enter_rollups ==
    /\ Polling
    /\ mode \in {"Dashboard", "Error"}
    /\ mode' = "Rollups"
    /\ status' = "none"
    /\ UNCHANGED <<env_vars, view_vars, needs_refresh, toast, token, token_hash, cache,
                   quota, refresh_intent, refresh_resume_mode, refetch_plan, pc, loc,
                   calls, ops>>
exit_rollups ==
    /\ Polling
    /\ mode = "Rollups"
    /\ mode' = "Dashboard"
    /\ UNCHANGED <<env_vars, view_vars, needs_refresh, status, toast, token, token_hash,
                   cache, quota, refresh_intent, refresh_resume_mode, refetch_plan, pc,
                   loc, calls, ops>>


\* ------------------------------------------------------------ refresh_data
\* App::handle_error: the fields it sets.
error_status(err) ==
    CASE err = "Unauthorized" -> "Invalid token. Please login."
      [] err = "PaymentRequired" -> "Toggl API error: 402 Payment Required"
      [] err = "RateLimited" -> "Toggl API rate limit reached."
      [] OTHER -> "Toggl API error: message"
\* handle_error that leaves the loading overlay up after a failure.
handle_error_still_loading(err, tok, hash, c) ==
    IF err = "Unauthorized"
    THEN [token |-> None, token_hash |-> None, cache |-> None,
          mode |-> "Login", status |-> error_status(err)]
    ELSE [token |-> tok, token_hash |-> hash, cache |-> c,
          mode |-> "Loading", status |-> error_status(err)]
\* handle_error with `self.cache = None` lost.
handle_error_keeps_cache(err, tok, hash, c) ==
    IF err = "Unauthorized"
    THEN [token |-> None, token_hash |-> None, cache |-> c,
          mode |-> "Login", status |-> error_status(err)]
    ELSE [token |-> tok, token_hash |-> hash, cache |-> c,
          mode |-> "Error", status |-> error_status(err)]
handle_error(err, tok, hash, c) ==
    IF err = "Unauthorized"
    THEN [token |-> None, token_hash |-> None, cache |-> None,
          mode |-> "Login", status |-> error_status(err)]
    ELSE [token |-> tok, token_hash |-> hash, cache |-> c,
          mode |-> "Error", status |-> error_status(err)]

\* App::no_cache_message, App::quota_message, App::quota_exhausted_message,
\* App::cache_status_message
no_cache_message == "No cached data available. Press r to fetch."
quota_message(q) ==
    IF quota_remaining(q) = 0 THEN "Quota reached." ELSE "Quota low."
quota_exhausted_message(q) == quota_message(q) \o " No cached data available."
cache_status_message(reason, q) ==
    CASE reason = "CacheOnly" -> "Using cached data."
      [] reason = "Quota" -> quota_message(q) \o " Using cached data."
      [] OTHER -> "Using cached data due to API error."

\* refresh_data: allow_api is the manual (ForceApi) intent.
AllowApi_always(intent) == TRUE
AllowApi(intent) == intent = "ForceApi"

\* The reason never recorded.
RecordReason_lost(cache_reason, reason) == cache_reason
\* `if cache_reason.is_none() { *cache_reason = Some(reason) }`
RecordReason(cache_reason, reason) ==
    IF cache_reason = None THEN Some(reason) ELSE cache_reason

\* One remote call of the running handler: the handler ("refresh" for
\* refresh_data, "refetch" for execute_rollup_refetch), the operation, its
\* outcome ("ok", "Unauthorized" or "failed" for the other errors), allow_api
\* and the remaining quota when it was decided, and whether a quota unit was
\* consumed for it.
Outcome(res) == IF res \in {"ok", "Unauthorized"} THEN res ELSE "failed"
Call(op, res, paid) ==
    [cycle |-> IF pc = "refetch" THEN "refetch" ELSE "refresh",
     op |-> op, res |-> Outcome(res), allow_api |-> loc.allow_api,
     left |-> quota_remaining(quota), paid |-> paid]

\* The handler returns: back to the event loop.
Return == pc' = "idle" /\ loc' = LocIdle

\* handle_error(err) followed by return.
Abort(err) ==
    LET r == handle_error(err, token, token_hash, cache)
    IN  /\ token' = r.token
        /\ token_hash' = r.token_hash
        /\ cache' = r.cache
        /\ mode' = r.mode
        /\ status' = r.status
        /\ Return

\* refresh_data, lines 407-436: up to the first resolution step.
refresh_start ==
    /\ pc = "idle"
    /\ needs_refresh
    /\ needs_refresh' = FALSE
    /\ quota' = ensure_quota_today(quota, today)
    /\ quota_file' = IF quota.date # today THEN Some(quota') ELSE quota_file
    /\ refresh_resume_mode' = None
    /\ calls' = <<>>
    /\ IF token = None
       THEN /\ mode' = "Login"
            /\ status' = "none"
            /\ UNCHANGED <<token_hash, cache, refresh_intent, pc, loc>>
       ELSE /\ token_hash' = IF token_hash = None THEN Some(hash_token(The(token)))
                             ELSE token_hash
            /\ cache' = IF cache = None /\ read_cache(cache_file) # None
                           /\ The(read_cache(cache_file)).token_hash = The(token_hash')
                        THEN read_cache(cache_file) ELSE cache
            /\ refresh_intent' = "CacheOnly"
            /\ status' = "none"
            /\ pc' = "workspaces"
            /\ loc' = [LocIdle EXCEPT !.allow_api = AllowApi(refresh_intent),
                                      !.manual_refresh = (refresh_intent = "ForceApi"),
                                      !.resume_mode = refresh_resume_mode]
            /\ UNCHANGED mode
    /\ UNCHANGED <<now, cache_file, toast, token, view_vars, refetch_plan, ops>>

\* The workspace selection that forgets a manual refresh when it suspends.
WorkspacesResolved_intent_dropped(workspaces) ==
    IF workspaces = {}
    THEN /\ mode' = "Error"
         /\ status' = "No workspaces found."
         /\ Return
         /\ UNCHANGED <<workspace_list, selected_workspace, refresh_intent>>
    ELSE /\ workspace_list' = workspaces
         /\ IF selected_workspace = None /\ Cardinality(workspaces) # 1
            THEN /\ mode' = "WorkspaceSelect"
                 /\ Return
                 /\ UNCHANGED <<selected_workspace, status, refresh_intent>>
            ELSE /\ selected_workspace' = IF selected_workspace = None
                                          THEN Some(The(workspaces)) ELSE selected_workspace
                 /\ pc' = "projects"
                 /\ loc' = [loc EXCEPT !.workspace = The(selected_workspace')]
                 /\ UNCHANGED <<mode, status, refresh_intent>>

\* refresh_data, lines 448-481: what follows a resolved workspace list.
WorkspacesResolved(workspaces) ==
    IF workspaces = {}
    THEN /\ mode' = "Error"
         /\ status' = "No workspaces found."
         /\ Return
         /\ UNCHANGED <<workspace_list, selected_workspace, refresh_intent>>
    ELSE /\ workspace_list' = workspaces
         /\ IF selected_workspace = None /\ Cardinality(workspaces) # 1
            THEN /\ mode' = "WorkspaceSelect"
                 /\ refresh_intent' = IF loc.manual_refresh THEN "ForceApi" ELSE refresh_intent
                 /\ Return
                 /\ UNCHANGED <<selected_workspace, status>>
            ELSE /\ selected_workspace' = IF selected_workspace = None
                                          THEN Some(The(workspaces)) ELSE selected_workspace
                 /\ pc' = "projects"
                 /\ loc' = [loc EXCEPT !.workspace = The(selected_workspace')]
                 /\ UNCHANGED <<mode, status, refresh_intent>>

\* App::resolve_workspaces and the workspace selection of refresh_data
resolve_workspaces ==
    /\ pc = "workspaces"
    /\ \/ /\ cached_workspaces(cache) # None
          /\ WorkspacesResolved(The(cached_workspaces(cache)).data)
          /\ UNCHANGED <<cache, cache_file, token, token_hash, calls>>
       \/ /\ cached_workspaces(cache) = None
          /\ ~loc.allow_api
          /\ mode' = "Error"
          /\ status' = no_cache_message
          /\ Return
          /\ UNCHANGED <<cache, cache_file, token, token_hash, calls, workspace_list,
                         selected_workspace, refresh_intent>>
       \/ /\ cached_workspaces(cache) = None
          /\ loc.allow_api
          /\ \E workspaces \in RemoteWorkspaces :
                /\ cache' = update_cache_workspaces(cache, token_hash, workspaces, now)
                /\ WorkspacesResolved(workspaces)
          /\ cache_file' = cache'
          /\ calls' = Append(calls, Call("fetch_workspaces", "ok", FALSE))
          /\ UNCHANGED <<token, token_hash>>
       \/ /\ cached_workspaces(cache) = None
          /\ loc.allow_api
          /\ \E err \in RemoteErrors :
                /\ Abort(err)
                /\ calls' = Append(calls, Call("fetch_workspaces", err, FALSE))
          /\ UNCHANGED <<cache_file, workspace_list, selected_workspace, refresh_intent>>
    /\ UNCHANGED <<now, quota_file, needs_refresh, toast, quota, date_range, projects,
                   time_entries, client_names, last_refresh, refresh_resume_mode,
                   refetch_plan, ops>>

\* App::resolve_projects
resolve_projects ==
    /\ pc = "projects"
    /\ \/ /\ cached_projects(cache, loc.workspace) # None
          /\ loc' = [loc EXCEPT !.projects = The(cached_projects(cache, loc.workspace)).data]
          /\ pc' = "clients"
          /\ UNCHANGED <<cache, cache_file, token, token_hash, calls, mode, status>>
       \/ /\ cached_projects(cache, loc.workspace) = None
          /\ ~loc.allow_api
          /\ mode' = "Error"
          /\ status' = no_cache_message
          /\ Return
          /\ UNCHANGED <<cache, cache_file, token, token_hash, calls>>
       \/ /\ cached_projects(cache, loc.workspace) = None
          /\ loc.allow_api
          /\ \E fetched \in RemoteProjects :
                /\ cache' = update_cache_projects(cache, token_hash, loc.workspace,
                                                  fetched, now)
                /\ loc' = [loc EXCEPT !.projects = fetched]
          /\ cache_file' = cache'
          /\ pc' = "clients"
          /\ calls' = Append(calls, Call("fetch_projects", "ok", FALSE))
          /\ UNCHANGED <<token, token_hash, mode, status>>
       \/ /\ cached_projects(cache, loc.workspace) = None
          /\ loc.allow_api
          /\ \E err \in RemoteErrors :
                /\ Abort(err)
                /\ calls' = Append(calls, Call("fetch_projects", err, FALSE))
          /\ UNCHANGED cache_file
    /\ UNCHANGED <<now, quota_file, needs_refresh, toast, quota, view_vars,
                   refresh_intent, refresh_resume_mode, refetch_plan, ops>>


\* App::resolve_client_names: the names known from the projects themselves, and
\* the client ids whose name is missing.
DenormalizedNames(ps) == {p.client_id : p \in {x \in ps : x.client_id # 0 /\ x.client_name}}
\* MissingClients counting every project with a client, named or not.
MissingClients_any_client(ps) == {p.client_id : p \in {x \in ps : x.client_id # 0}}
MissingClients(ps) == {p.client_id : p \in {x \in ps : x.client_id # 0 /\ ~x.client_name}}

\* App::resolve_client_names, called at `at` with loc.projects; goes on at `next`.
ClientNames(at, next) ==
    /\ pc = at
    /\ \/ /\ MissingClients(loc.projects) = {}
          /\ loc' = [loc EXCEPT !.client_names = DenormalizedNames(loc.projects)]
          /\ pc' = next
          /\ UNCHANGED <<cache, cache_file, token, token_hash, calls, mode, status>>
       \/ /\ MissingClients(loc.projects) # {}
          /\ cached_clients(cache, loc.workspace) # None
          /\ loc' = [loc EXCEPT !.client_names =
                        DenormalizedNames(loc.projects) \cup
                        (MissingClients(loc.projects)
                            \cap The(cached_clients(cache, loc.workspace)).data)]
          /\ pc' = next
          /\ UNCHANGED <<cache, cache_file, token, token_hash, calls, mode, status>>
       \/ /\ MissingClients(loc.projects) # {}
          /\ cached_clients(cache, loc.workspace) = None
          /\ ~loc.allow_api
          /\ loc' = [loc EXCEPT !.client_names = DenormalizedNames(loc.projects)]
          /\ pc' = next
          /\ UNCHANGED <<cache, cache_file, token, token_hash, calls, mode, status>>
       \/ /\ MissingClients(loc.projects) # {}
          /\ cached_clients(cache, loc.workspace) = None
          /\ loc.allow_api
          /\ \E clients \in RemoteClients :
                /\ cache' = update_cache_clients(cache, token_hash, loc.workspace,
                                                 clients, now)
                /\ loc' = [loc EXCEPT !.client_names =
                              DenormalizedNames(loc.projects) \cup
                              (MissingClients(loc.projects) \cap clients)]
          /\ cache_file' = cache'
          /\ pc' = next
          /\ calls' = Append(calls, Call("fetch_clients", "ok", FALSE))
          /\ UNCHANGED <<token, token_hash, mode, status>>
       \/ /\ MissingClients(loc.projects) # {}
          /\ cached_clients(cache, loc.workspace) = None
          /\ loc.allow_api
          /\ \E err \in RemoteErrors :
                /\ calls' = Append(calls, Call("fetch_clients", err, FALSE))
                /\ IF err = "Unauthorized"
                   THEN Abort(err)
                   ELSE /\ loc' = [loc EXCEPT !.client_names =
                                      DenormalizedNames(loc.projects)]
                        /\ pc' = next
                        /\ UNCHANGED <<cache, token, token_hash, mode, status>>
          /\ UNCHANGED cache_file
    /\ UNCHANGED <<now, quota_file, needs_refresh, toast, quota, view_vars,
                   refresh_intent, refresh_resume_mode, refetch_plan, ops>>

resolve_client_names == ClientNames("clients", "entries")

\* refresh_data, lines 514-526: the entries with a stop timestamp, and whether
\* the orphaned-project backfill runs.
ValidEntries(entries) == {e \in entries : e.stop}
EntriesResolved(entries, reason, timestamp) ==
    /\ pc' = IF loc.allow_api
                /\ missing_project_ids(ValidEntries(entries), loc.projects) # {}
             THEN "backfill" ELSE "finish"
    /\ loc' = [loc EXCEPT !.entries = ValidEntries(entries),
                          !.cache_reason = reason,
                          !.cache_timestamp = timestamp,
                          !.missing = missing_project_ids(ValidEntries(entries),
                                                          loc.projects),
                          !.refreshed = loc.projects]

\* App::resolve_time_entries, from `if let Some(cached) = ...` on: the cache
\* fallback under cache reason `reason`, after the remote error `api_error`
\* (an Option) when quota was consumed into `q`.
CacheFallback(reason, api_error, q) ==
    \E order \in ScanOrders(TimeEntryKeys(cache)) :
        LET cached == cached_time_entries_for_range(
                        cache, loc.workspace, as_rfc3339(date_range)[1],
                        as_rfc3339(date_range)[2], order, now)
        IN  IF cached # None
            THEN /\ EntriesResolved(The(cached).data, reason, Some(The(cached).fetched_at))
                 /\ UNCHANGED <<mode, status>>
            ELSE /\ mode' = "Error"
                 /\ status' = IF api_error # None THEN error_status(The(api_error))
                              ELSE IF reason = Some("Quota") THEN quota_exhausted_message(q)
                              ELSE no_cache_message
                 /\ Return

\* The request issued whatever the quota left.
EntriesCallAllowed_without_quota(allow_api, q) == allow_api
\* Whether resolve_time_entries issues its request.
EntriesCallAllowed(allow_api, q) == allow_api /\ quota_remaining(q) # 0

\* App::resolve_time_entries and lines 514-526 of refresh_data
resolve_time_entries ==
    /\ pc = "entries"
    /\ \/ /\ EntriesCallAllowed(loc.allow_api, quota)
          /\ quota' = consume_quota(quota)
          /\ quota_file' = Some(quota')
          /\ \E entries \in RemoteTimeEntries(as_rfc3339(date_range)[1],
                                              as_rfc3339(date_range)[2]) :
                /\ cache' = update_cache_time_entries(
                               cache, token_hash, loc.workspace,
                               as_rfc3339(date_range)[1], as_rfc3339(date_range)[2],
                               entries, now)
                /\ EntriesResolved(entries, loc.cache_reason, loc.cache_timestamp)
          /\ cache_file' = cache'
          /\ calls' = Append(calls, Call("fetch_time_entries", "ok", TRUE))
          /\ UNCHANGED <<token, token_hash, mode, status>>
       \/ /\ EntriesCallAllowed(loc.allow_api, quota)
          /\ quota' = consume_quota(quota)
          /\ quota_file' = Some(quota')
          /\ \E err \in RemoteErrors :
                /\ calls' = Append(calls, Call("fetch_time_entries", err, TRUE))
                /\ IF err = "Unauthorized"
                   THEN Abort(err)
                   ELSE /\ CacheFallback(RecordReason(loc.cache_reason, "ApiError"),
                                         Some(err), quota')
                        /\ UNCHANGED <<cache, token, token_hash>>
          /\ UNCHANGED cache_file
       \/ /\ ~EntriesCallAllowed(loc.allow_api, quota)
          /\ loc.allow_api
          /\ CacheFallback(RecordReason(loc.cache_reason, "Quota"), None, quota)
          /\ UNCHANGED <<quota, quota_file, cache, cache_file, token, token_hash, calls>>
       \/ /\ ~EntriesCallAllowed(loc.allow_api, quota)
          /\ ~loc.allow_api
          /\ CacheFallback(RecordReason(loc.cache_reason, "CacheOnly"), None, quota)
          /\ UNCHANGED <<quota, quota_file, cache, cache_file, token, token_hash, calls>>
    /\ UNCHANGED <<now, needs_refresh, toast, view_vars, refresh_intent,
                   refresh_resume_mode, refetch_plan, ops>>


\* refresh_data, lines 528-542: the backfill re-fetches the whole project list.
backfill_projects ==
    /\ pc = "backfill"
    /\ \/ /\ \E fresh \in RemoteProjects :
                loc' = [loc EXCEPT !.refreshed = fresh, !.cache_changed = TRUE,
                                   !.missing = loc.missing \ {p.id : p \in fresh}]
          /\ calls' = Append(calls, Call("fetch_projects", "ok", FALSE))
          /\ pc' = "backfill_each"
          /\ UNCHANGED <<cache, token, token_hash, mode, status>>
       \/ /\ \E err \in RemoteErrors :
                /\ calls' = Append(calls, Call("fetch_projects", err, FALSE))
                /\ IF err = "Unauthorized"
                   THEN Abort(err)
                   ELSE /\ loc' = [loc EXCEPT !.missing =
                                      loc.missing \ {p.id : p \in loc.refreshed}]
                        /\ pc' = "backfill_each"
                        /\ UNCHANGED <<cache, token, token_hash, mode, status>>
    /\ UNCHANGED <<env_vars, needs_refresh, toast, quota, view_vars,
                   refresh_intent, refresh_resume_mode, refetch_plan, ops>>

\* refresh_data, lines 545-561: one iteration of the loop over the ids still missing.
backfill_project ==
    /\ pc = "backfill_each"
    /\ loc.missing # {}
    /\ \E project_id \in loc.missing :
        \/ /\ loc' = [loc EXCEPT
                        !.refreshed = {p \in loc.refreshed : p.id # project_id}
                                      \cup {Project(project_id, 0, FALSE)},
                        !.cache_changed = TRUE,
                        !.missing = loc.missing \ {project_id}]
           /\ calls' = Append(calls, Call("fetch_project", "ok", FALSE))
           /\ UNCHANGED <<pc, cache, token, token_hash, mode, status>>
        \/ /\ \E err \in RemoteErrors :
                /\ calls' = Append(calls, Call("fetch_project", err, FALSE))
                /\ IF err = "Unauthorized"
                   THEN Abort(err)
                   ELSE /\ loc' = [loc EXCEPT !.missing = loc.missing \ {project_id}]
                        /\ UNCHANGED <<pc, cache, token, token_hash, mode, status>>
    /\ UNCHANGED <<env_vars, needs_refresh, toast, quota, view_vars,
                   refresh_intent, refresh_resume_mode, refetch_plan, ops>>

\* refresh_data, lines 563-568: the merged project list overwrites the cache.
backfill_done ==
    /\ pc = "backfill_each"
    /\ loc.missing = {}
    /\ IF loc.cache_changed
       THEN /\ cache' = update_cache_projects(cache, token_hash, loc.workspace,
                                              loc.refreshed, now)
            /\ cache_file' = cache'
            /\ loc' = [loc EXCEPT !.projects = loc.refreshed]
            /\ pc' = "clients_again"
       ELSE /\ pc' = "finish"
            /\ UNCHANGED <<cache, cache_file, loc>>
    /\ UNCHANGED <<now, quota_file, mode, needs_refresh, status, toast, token,
                   token_hash, quota, view_vars, refresh_intent, refresh_resume_mode,
                   refetch_plan, calls, ops>>

\* refresh_data, lines 569-573: client names are resolved again.
resolve_client_names_again == ClientNames("clients_again", "finish")

\* refresh_data, lines 599-605: last_refresh
LastRefresh_after_any_call(allow_api, cache_reason, cache_timestamp, t) ==
    IF allow_api THEN Some(t)
    ELSE IF cache_timestamp = None THEN None
    ELSE parse_cached_time(The(cache_timestamp))
LastRefresh(allow_api, cache_reason, cache_timestamp, t) ==
    IF allow_api /\ cache_reason = None THEN Some(t)
    ELSE IF cache_timestamp = None THEN None
    ELSE parse_cached_time(The(cache_timestamp))

\* A finish that shows the new project list over the entries shown before.
refresh_finish_projects_only ==
    /\ pc = "finish"
    /\ projects' = loc.projects
    /\ client_names' = loc.client_names
    /\ last_refresh' = LastRefresh(loc.allow_api, loc.cache_reason, loc.cache_timestamp, now)
    /\ status' = IF loc.cache_reason # None
                 THEN cache_status_message(The(loc.cache_reason), quota) ELSE status
    /\ toast' = IF loc.cache_reason = Some("Quota") /\ loc.manual_refresh
                THEN Toast(cache_status_message("Quota", quota), TRUE)
                ELSE toast
    /\ mode' = IF loc.resume_mode # None THEN The(loc.resume_mode) ELSE "Dashboard"
    /\ Return
    /\ UNCHANGED <<env_vars, needs_refresh, token, token_hash, cache, quota,
                   workspace_list, selected_workspace, date_range, refresh_intent,
                   refresh_resume_mode, refetch_plan, calls, ops, time_entries>>
\* refresh_data, lines 577-616: the cycle succeeds.
refresh_finish ==
    /\ pc = "finish"
    /\ projects' = loc.projects
    /\ time_entries' = loc.entries
    /\ client_names' = loc.client_names
    /\ last_refresh' = LastRefresh(loc.allow_api, loc.cache_reason, loc.cache_timestamp, now)
    /\ status' = IF loc.cache_reason # None
                 THEN cache_status_message(The(loc.cache_reason), quota) ELSE status
    /\ toast' = IF loc.cache_reason = Some("Quota") /\ loc.manual_refresh
                THEN Toast(cache_status_message("Quota", quota), TRUE)
                ELSE toast
    /\ mode' = IF loc.resume_mode # None THEN The(loc.resume_mode) ELSE "Dashboard"
    /\ Return
    /\ UNCHANGED <<env_vars, needs_refresh, token, token_hash, cache, quota,
                   workspace_list, selected_workspace, date_range, refresh_intent,
                   refresh_resume_mode, refetch_plan, calls, ops>>

\* ------------------------------------------------- execute_rollup_refetch
\* App::open_rollup_refetch_confirm (key 'R' in handle_rollups_input) with a
\* day or period selected: the plan is its span.
open_rollup_refetch_confirm ==
    /\ Polling /\ Budget
    /\ mode = "Rollups"
    /\ \E plan \in Ranges : refetch_plan' = Some(plan)
    /\ mode' = "RefetchConfirm"
    /\ UNCHANGED <<env_vars, view_vars, needs_refresh, status, toast, token, token_hash,
                   cache, quota, refresh_intent, refresh_resume_mode, pc, loc, calls, ops>>

\* Esc or 'n' in App::handle_refetch_confirm_input
cancel_refetch ==
    /\ Polling
    /\ mode = "RefetchConfirm"
    /\ refetch_plan' = None
    /\ mode' = "Rollups"
    /\ UNCHANGED <<env_vars, view_vars, needs_refresh, status, toast, token, token_hash,
                   cache, quota, refresh_intent, refresh_resume_mode, pc, loc, calls, ops>>

\* execute_rollup_refetch, lines 1926-1958 (Enter or 'y' in
\* handle_refetch_confirm_input): up to the loop over the days.
execute_rollup_refetch ==
    /\ Polling /\ Budget
    /\ mode = "RefetchConfirm"
    /\ ops' = ops + 1
    /\ calls' = <<>>
    /\ IF refetch_plan = None
       THEN /\ mode' = "Rollups"
            /\ UNCHANGED <<refetch_plan, quota, quota_file, pc, loc>>
       ELSE IF token = None
       THEN /\ refetch_plan' = None
            /\ mode' = "Login"
            /\ UNCHANGED <<quota, quota_file, pc, loc>>
       ELSE IF selected_workspace = None
       THEN /\ refetch_plan' = None
            /\ mode' = "WorkspaceSelect"
            /\ UNCHANGED <<quota, quota_file, pc, loc>>
       ELSE /\ quota' = ensure_quota_today(quota, today)
            /\ quota_file' = IF quota.date # today THEN Some(quota') ELSE quota_file
            /\ pc' = "refetch"
            /\ loc' = [LocIdle EXCEPT !.workspace = The(selected_workspace), !.index = 1]
            /\ UNCHANGED <<refetch_plan, mode>>
    /\ UNCHANGED <<now, cache_file, view_vars, needs_refresh, status, toast, token,
                   token_hash, cache, refresh_intent, refresh_resume_mode>>

\* The stop reason a failed day's error gives.
StopReason(err) ==
    CASE err = "PaymentRequired" -> "Toggl returned 402 Payment Required"
      [] err = "RateLimited" -> "Toggl rate limit reached"
      [] OTHER -> "Toggl API error: message"

\* SkippedDays that leaves out the day whose call failed: skip(len + 1).
SkippedDays_after_failed(dates, fetched_days) ==
    IF Len(fetched_days) + 1 < Len(dates)
    THEN [i \in 1..(Len(dates) - Len(fetched_days) - 1) |-> dates[Len(fetched_days) + 1 + i]]
    ELSE <<>>
\* The days a partial re-fetch reports as skipped: dates.iter().skip(fetched_days.len())
SkippedDays(dates, fetched_days) ==
    IF Len(fetched_days) < Len(dates)
    THEN [i \in 1..(Len(dates) - Len(fetched_days)) |-> dates[Len(fetched_days) + i]]
    ELSE <<>>

\* execute_rollup_refetch, lines 1995-2028: after the loop.
\* "Refetched {total} day(s) for {scope}." or "Partial refetch {count}/{total}
\* day(s). Cached: {spans}. Stopped: {reason}. Skipped: {spans}."
RefetchDone(dates, fetched_days, stop_reason) ==
    /\ refetch_plan' = None
    /\ mode' = "Loading"
    /\ refresh_resume_mode' = Some("Rollups")
    /\ refresh_intent' = "CacheOnly"
    /\ needs_refresh' = TRUE
    /\ IF Len(fetched_days) = Len(dates)
       THEN /\ status' = "Refetched"
            /\ toast' = [Toast("Refetched", FALSE) EXCEPT
                            !.total = Len(dates),
                            !.scope = <<dates[1], dates[Len(dates)]>>]
       ELSE /\ status' = "Partial refetch"
            /\ toast' = [Toast("Partial refetch", TRUE) EXCEPT
                            !.count = Len(fetched_days),
                            !.total = Len(dates),
                            !.cached = format_day_spans(fetched_days),
                            !.reason = IF stop_reason # None THEN The(stop_reason)
                                       ELSE "fetch interrupted",
                            !.skipped = format_day_spans(
                                            SkippedDays(dates, fetched_days))]
    /\ Return

\* execute_rollup_refetch, lines 1960-1993: one iteration of the loop over the
\* days of the plan (or the loop's end), then lines 1995-2028.
refetch_day ==
    /\ pc = "refetch"
    /\ LET dates == date_span(The(refetch_plan)[1], The(refetch_plan)[2])
           day == dates[loc.index]
           range == as_rfc3339(<<day, day>>)
       IN  IF loc.index > Len(dates)
           THEN /\ RefetchDone(dates, loc.fetched_days, loc.stop_reason)
                /\ UNCHANGED <<quota, quota_file, cache, cache_file, token, token_hash,
                               calls>>
           ELSE IF quota_remaining(quota) = 0
           THEN /\ RefetchDone(dates, loc.fetched_days, Some("local quota reached"))
                /\ UNCHANGED <<quota, quota_file, cache, cache_file, token, token_hash,
                               calls>>
           ELSE /\ quota' = consume_quota(quota)
                /\ quota_file' = Some(quota')
                /\ \/ /\ \E entries \in RemoteTimeEntries(range[1], range[2]) :
                            cache' = update_cache_time_entries(
                                        cache, token_hash, loc.workspace, range[1],
                                        range[2], entries, now)
                      /\ cache_file' = cache'
                      /\ calls' = Append(calls, Call("fetch_time_entries", "ok", TRUE))
                      /\ loc' = [loc EXCEPT !.index = loc.index + 1,
                                            !.fetched_days = Append(loc.fetched_days, day)]
                      /\ UNCHANGED <<pc, refetch_plan, mode, refresh_resume_mode,
                                     refresh_intent, needs_refresh, status, toast,
                                     token, token_hash>>
                   \/ /\ \E err \in RemoteErrors :
                            /\ calls' = Append(calls, Call("fetch_time_entries", err, TRUE))
                            /\ IF err = "Unauthorized"
                               THEN /\ refetch_plan' = None
                                    /\ Abort(err)
                                    /\ UNCHANGED <<refresh_resume_mode, refresh_intent,
                                                   needs_refresh, toast>>
                               ELSE /\ RefetchDone(dates, loc.fetched_days,
                                                   Some(StopReason(err)))
                                    /\ UNCHANGED <<cache, token, token_hash>>
                      /\ UNCHANGED cache_file
    /\ UNCHANGED <<now, view_vars, ops>>

\* ------------------------------------------------------------ specification
Next ==
    \/ Tick
    \/ trigger_refresh
    \/ set_date_range
    \/ handle_login_input
    \/ handle_workspace_input
    \/ enter_rollups
    \/ exit_rollups
    \/ enter_settings
    \/ exit_settings
    \/ settings_update_token
    \/ refresh_start
    \/ resolve_workspaces
    \/ resolve_projects
    \/ resolve_client_names
    \/ resolve_time_entries
    \/ backfill_projects
    \/ backfill_project
    \/ backfill_done
    \/ resolve_client_names_again
    \/ refresh_finish
    \/ open_rollup_refetch_confirm
    \/ cancel_refetch
    \/ execute_rollup_refetch
    \/ refetch_day

Spec == Init /\ [][Next]_vars

\* ------------------------------------------------------ the ledger alone
\* The quota ledger's operations applied to ledgers of any content: the
\* ledger a file can hold (any version, date and count), read at start-up,
\* consumed from and brought to today.  pc names the operation applied last
\* and loc holds its input: the ledger before it (an Option: no file) and the
\* date it ran on.  The other fields of the App stay as App::new leaves them
\* without a token.
MaxOver == 2
LedgerFiles ==
    {QuotaFile(version, date, used_calls) :
        version \in {QUOTA_FILE_VERSION - 1, QUOTA_FILE_VERSION},
        date \in 0..DayOf(MaxNow),
        used_calls \in 0..(CALL_LIMIT + MaxOver)}

app_vars == <<cache_file, mode, needs_refresh, status, toast, token, token_hash, cache,
              workspace_list, selected_workspace, date_range, projects, time_entries,
              client_names, last_refresh, refresh_intent, refresh_resume_mode,
              refetch_plan, calls, ops>>

\* storage::read_quota at start-up
InitQuota ==
    \E file \in {None} \cup {Some(l) : l \in LedgerFiles} :
        /\ AppNew(None, None, file, <<1, 1>>)

\* storage::read_quota: the program is started over the ledger file found.
ledger_read ==
    /\ \E file \in {None} \cup {Some(l) : l \in LedgerFiles} :
        /\ quota_file' = file
        /\ quota' = read_quota(file, today)
        /\ loc' = [ledger |-> file, today |-> today]
    /\ pc' = "read_quota"
    /\ UNCHANGED <<now, app_vars>>

\* App::consume_quota
ledger_consume ==
    /\ quota' = consume_quota(quota)
    /\ quota_file' = Some(quota')
    /\ loc' = [ledger |-> Some(quota), today |-> today]
    /\ pc' = "consume_quota"
    /\ UNCHANGED <<now, app_vars>>

\* App::ensure_quota_today
ledger_ensure_today ==
    /\ quota' = ensure_quota_today(quota, today)
    /\ quota_file' = IF quota.date # today THEN Some(quota') ELSE quota_file
    /\ loc' = [ledger |-> Some(quota), today |-> today]
    /\ pc' = "ensure_quota_today"
    /\ UNCHANGED <<now, app_vars>>

\* The wall clock advances.
ledger_tick ==
    /\ now < MaxNow
    /\ now' = now + 1
    /\ UNCHANGED <<quota, quota_file, pc, loc, app_vars>>

NextQuota == ledger_read \/ ledger_consume \/ ledger_ensure_today \/ ledger_tick
SpecQuota == InitQuota /\ [][NextQuota]_vars

\* ------------------------------------------------- the cache store alone
\* Time-entry ranges written to the cache and looked up again.  `calls` is the
\* log of the keys written, in the order of the writes; pc names the
\* operation applied last and loc holds the lookup's query and its result.
MaxMergeDay == 3
MaxWrites == 2
MergeRanges == {r \in (1..MaxMergeDay) \X (1..MaxMergeDay) : r[1] <= r[2]}
\* Entry lists a range can be written with: entry 1 in two versions, an entry
\* on another day, one whose start does not parse.
MergeLists ==
    {{},
     {TimeEntry(1, Rfc3339(2), TRUE, 0, 1)},
     {TimeEntry(1, Rfc3339(2), TRUE, 0, 2), TimeEntry(2, Rfc3339(1), TRUE, 0, 1)},
     {TimeEntry(1, Rfc3339(2), TRUE, 0, 2), TimeEntry(3, RawString(0), TRUE, 0, 1)},
     {TimeEntry(2, Rfc3339(MaxMergeDay), TRUE, 0, 1)}}

merge_vars == <<quota_file, mode, needs_refresh, status, toast, token, token_hash,
                quota, workspace_list, selected_workspace, date_range, projects,
                time_entries, client_names, last_refresh, refresh_intent,
                refresh_resume_mode, refetch_plan, ops>>

InitMerge == AppNew(Some("tokA"), None, None, <<1, 1>>)

\* App::update_cache_time_entries
merge_write ==
    /\ Len(calls) < MaxWrites
    /\ \E workspace_id \in WsIds, range \in MergeRanges, entries \in MergeLists :
        /\ cache' = update_cache_time_entries(
                        cache, token_hash, workspace_id, as_rfc3339(range)[1],
                        as_rfc3339(range)[2], entries, now)
        /\ calls' = Append(calls, cache_key(workspace_id, as_rfc3339(range)[1],
                                            as_rfc3339(range)[2]))
    /\ cache_file' = cache'
    /\ pc' = "write"
    /\ loc' = LocIdle
    /\ UNCHANGED <<now, merge_vars>>

\* App::cached_time_entries_for_range, the map iterated in any order.  A
\* lookup leaves the cache as it is, so one lookup after a write shows what
\* any number of them return.
merge_lookup ==
    /\ cache # None
    /\ pc = "write"
    /\ \E workspace_id \in WsIds, range \in MergeRanges,
          order \in ScanOrders(TimeEntryKeys(cache)) :
        loc' = [workspace |-> workspace_id, start |-> range[1], end |-> range[2],
                result |-> cached_time_entries_for_range(
                              cache, workspace_id, as_rfc3339(range)[1],
                              as_rfc3339(range)[2], order, now)]
    /\ pc' = "lookup"
    /\ UNCHANGED <<now, cache, cache_file, calls, merge_vars>>

\* The wall clock advances.
merge_tick ==
    /\ pc # "lookup"
    /\ now < MaxNow
    /\ now' = now + 1
    /\ UNCHANGED <<cache, cache_file, calls, pc, loc, merge_vars>>

NextMerge == merge_write \/ merge_lookup \/ merge_tick
SpecMerge == InitMerge /\ [][NextMerge]_vars

\* ------------------------------------------------ the targeted re-fetch alone
\* execute_rollup_refetch confirmed on a plan of up to MaxSpan days (a week,
\* a month): the App is in RefetchConfirm after a refresh selected workspace
\* 1, with a ledger of today and the cache of an earlier run or none.
MaxSpan == 5
RefetchPlans == {r \in (1..MaxSpan) \X (1..MaxSpan) : r[1] <= r[2]}

InitRefetch ==
    \E plan \in RefetchPlans,
       used_calls \in {0} \cup ((CALL_LIMIT - MaxLeft)..CALL_LIMIT),
       cache0 \in {None, Some(EarlierCache(CACHE_FILE_VERSION, "tokA", {1}))} :
        /\ now = 1
        /\ quota = QuotaFile(QUOTA_FILE_VERSION, DayOf(1), used_calls)
        /\ quota_file = Some(quota)
        /\ cache_file = cache0
        /\ cache = cache0
        /\ token = Some("tokA")
        /\ token_hash = Some(hash_token("tokA"))
        /\ mode = "RefetchConfirm"
        /\ refetch_plan = Some(plan)
        /\ needs_refresh = FALSE
        /\ status = "none"
        /\ toast = NoToast
        /\ workspace_list = {1}
        /\ selected_workspace = Some(1)
        /\ date_range = <<1, 1>>
        /\ projects = {}
        /\ time_entries = {}
        /\ client_names = {}
        /\ last_refresh = None
        /\ refresh_intent = "CacheOnly"
        /\ refresh_resume_mode = None
        /\ pc = "idle"
        /\ loc = LocIdle
        /\ calls = <<>>
        /\ ops = 0

NextRefetch == execute_rollup_refetch \/ refetch_day
SpecRefetch == InitRefetch /\ [][NextRefetch]_vars

\* ------------------------------------------------------- rounding::round_seconds
\* i64 arithmetic.  The program's i64 is given IntWidth bits here, so that its
\* two limits are among the inputs.  An operation whose result does not fit
\* panics in a build with overflow checks (the debug profile) and wraps in one
\* without (the release profile); Panic stands for the panic and is no i64.
IntWidth == 13
I64Max == 2^(IntWidth - 1) - 1
I64Min == 0 - 2^(IntWidth - 1)
I64 == I64Min..I64Max
Panic == I64Max + 1
wrapping(n) == ((n - I64Min) % 2^IntWidth) + I64Min
\* `a op b` with the exact result n.
Arith(n, overflow_checks) ==
    IF n \in I64 THEN n ELSE IF overflow_checks THEN Panic ELSE wrapping(n)
\* i64::abs
i64_abs(n, overflow_checks) == Arith(IF n < 0 THEN 0 - n ELSE n, overflow_checks)
\* i64 `/` and `%` by a positive divisor: the quotient is truncated toward zero.
i64_div(a, b) == IF a >= 0 THEN a \div b ELSE 0 - ((0 - a) \div b)
i64_rem(a, b) == a - i64_div(a, b) * b
\* i64::saturating_mul
saturating_mul(a, b) ==
    IF a * b > I64Max THEN I64Max ELSE IF a * b < I64Min THEN I64Min ELSE a * b

RoundingModes == {"Closest", "Up", "Down"}
RoundingConfig(increment_minutes, rounding_mode) ==
    [increment_minutes |-> increment_minutes, mode |-> rounding_mode]

\* Up that takes the next multiple from an aligned value too.
round_up_always(abs_seconds, aligned, next) == next
\* RoundingMode::Up, lines 41-47
round_up(abs_seconds, aligned, next) == IF aligned THEN abs_seconds ELSE next
\* Closest that sends a tie to the lower multiple.
round_closest_ties_down(lower, upper, distance_to_lower, distance_to_upper) ==
    IF distance_to_upper < distance_to_lower THEN upper ELSE lower
\* RoundingMode::Closest, lines 57-61
round_closest(lower, upper, distance_to_lower, distance_to_upper) ==
    IF distance_to_upper <= distance_to_lower THEN upper ELSE lower
\* The result without its sign.
restore_sign_lost(rounded, sign) == rounded
\* rounded.saturating_mul(sign), line 65
restore_sign(rounded, sign) == saturating_mul(rounded, sign)

\* rounding::round_seconds
round_seconds(seconds, cfg, overflow_checks) ==
    LET increment_seconds == cfg.increment_minutes * 60
        sign == IF seconds < 0 THEN 0 - 1 ELSE 1
        abs_seconds == i64_abs(seconds, overflow_checks)
        quotient == i64_div(abs_seconds, increment_seconds)
        aligned == i64_rem(abs_seconds, increment_seconds) = 0
        lower == Arith(quotient * increment_seconds, overflow_checks)
        next == Arith((quotient + 1) * increment_seconds, overflow_checks)
        upper == IF aligned THEN lower
                 ELSE Arith(lower + increment_seconds, overflow_checks)
        distance_to_lower == Arith(abs_seconds - lower, overflow_checks)
        distance_to_upper == IF upper = Panic THEN Panic
                             ELSE Arith(upper - abs_seconds, overflow_checks)
        rounded ==
            CASE cfg.mode = "Down" -> lower
              [] cfg.mode = "Up" -> round_up(abs_seconds, aligned, next)
              [] cfg.mode = "Closest" ->
                    IF Panic \in {upper, distance_to_lower, distance_to_upper}
                    THEN Panic
                    ELSE round_closest(lower, upper, distance_to_lower,
                                       distance_to_upper)
    IN  IF cfg.increment_minutes = 0 THEN seconds
        ELSE IF increment_seconds <= 0 THEN seconds
        ELSE IF abs_seconds = Panic \/ rounded = Panic THEN Panic
        ELSE restore_sign(rounded, sign)

\* ------------------------------------------------------ the rounding alone
\* round_seconds applied to every i64, for the increments of Increments (off,
\* one minute, a quarter of an hour) in the three modes and both builds: to
\* the input, to its own result, and to the input negated.  loc holds the
\* input and the results (Options: not computed yet).
Increments == {0, 1, 15}
RoundingConfigs ==
    {RoundingConfig(increment_minutes, rounding_mode) :
        increment_minutes \in Increments, rounding_mode \in RoundingModes}

\* The App as App::new leaves it without a token, clock at 1, a handler-less
\* position p with the locals l.
AppAt(p, l) ==
    /\ now = 1
    /\ quota_file = None
    /\ cache_file = None
    /\ token = None
    /\ mode = "Login"
    /\ needs_refresh = FALSE
    /\ token_hash = None
    /\ cache = None
    /\ quota = read_quota(None, DayOf(1))
    /\ status = "none"
    /\ toast = NoToast
    /\ workspace_list = {}
    /\ selected_workspace = None
    /\ date_range = <<1, 1>>
    /\ projects = {}
    /\ time_entries = {}
    /\ client_names = {}
    /\ last_refresh = None
    /\ refresh_intent = "CacheOnly"
    /\ refresh_resume_mode = None
    /\ refetch_plan = None
    /\ pc = p
    /\ loc = l
    /\ calls = <<>>
    /\ ops = 0
\* The variables a pure function's application leaves alone.
pure_vars == <<now, quota_file, cache_file, mode, needs_refresh, status, toast, token,
               token_hash, cache, quota, workspace_list, selected_workspace,
               date_range, projects, time_entries, client_names, last_refresh,
               refresh_intent, refresh_resume_mode, refetch_plan, calls, ops>>

InitRound ==
    \E seconds \in I64, cfg \in RoundingConfigs, overflow_checks \in BOOLEAN :
        AppAt("input", [seconds |-> seconds, cfg |-> cfg,
                        overflow_checks |-> overflow_checks,
                        rounded |-> None, again |-> None, negated |-> None])

\* round_seconds(seconds, cfg)
round_input ==
    /\ pc = "input"
    /\ loc' = [loc EXCEPT !.rounded =
                  Some(round_seconds(loc.seconds, loc.cfg, loc.overflow_checks))]
    /\ pc' = "rounded"
    /\ UNCHANGED pure_vars

\* round_seconds(round_seconds(seconds, cfg), cfg), when the first call returned
round_again ==
    /\ pc = "rounded"
    /\ The(loc.rounded) # Panic
    /\ loc' = [loc EXCEPT !.again =
                  Some(round_seconds(The(loc.rounded), loc.cfg, loc.overflow_checks))]
    /\ pc' = "again"
    /\ UNCHANGED pure_vars

\* round_seconds(-seconds, cfg): the negation is an i64 operation too.
round_negated ==
    /\ pc \in {"rounded", "again"}
    /\ loc.negated = None
    /\ loc' = [loc EXCEPT !.negated =
                  LET minus == Arith(0 - loc.seconds, loc.overflow_checks)
                  IN  Some(IF minus = Panic THEN Panic
                           ELSE round_seconds(minus, loc.cfg, loc.overflow_checks))]
    /\ pc' = "negated"
    /\ UNCHANGED pure_vars

NextRound == round_input \/ round_again \/ round_negated
SpecRound == InitRound /\ [][NextRound]_vars

\* ----------------------------------------------------------------- grouping
\* What grouping.rs reads of a time entry.
TimedEntry(project_id, description, duration) ==
    [project_id |-> project_id, description |-> description, duration |-> duration]
\* What grouping.rs reads of a project.
NamedProject(id, name, client_id, client_name) ==
    [id |-> id, name |-> name, client_id |-> client_id, client_name |-> client_name]
GroupedEntry(description, total_hours) ==
    [description |-> description, total_hours |-> total_hours]
GroupedProject(project_name, client_name, display_name, total_hours, entries) ==
    [project_name |-> project_name, client_name |-> client_name,
     display_name |-> display_name, total_hours |-> total_hours, entries |-> entries]

SecondsPerHour == 3600
\* `seconds as f64 / 3600.0`: the quotient, kept as numerator and denominator.
Hours(seconds) == <<seconds, SecondsPerHour>>
\* f64 partial_cmp of two such quotients: "less", "equal" or "greater".
partial_cmp(a, b) ==
    IF a[1] * b[2] < b[1] * a[2] THEN "less"
    ELSE IF a[1] * b[2] > b[1] * a[2] THEN "greater" ELSE "equal"

\* The strings the grouping compares, in the byte order of str::cmp.
NameOrder == <<"Client", "No Project", "Project A", "Project B", "Unknown Project">>
str_cmp(a, b) ==
    LET rank(s) == CHOOSE i \in DOMAIN NameOrder : NameOrder[i] = s
    IN IF rank(a) < rank(b) THEN "less" ELSE IF rank(a) > rank(b) THEN "greater" ELSE "equal"

\* slice::sort_by, a stable sort: before[i, j] says that the comparator puts
\* s[i] before s[j]; elements that compare equal keep their order.
sort_by(s, before) ==
    LET o == CHOOSE p \in ScanOrders(DOMAIN s) :
                 \A i, j \in DOMAIN s : i < j =>
                     /\ ~before[p[j], p[i]]
                     /\ (~before[p[i], p[j]] => p[i] < p[j])
    IN [i \in DOMAIN s |-> s[o[i]]]

\* i64::saturating_add
i64_saturating_add(a, b) ==
    IF a + b > I64Max THEN I64Max ELSE IF a + b < I64Min THEN I64Min ELSE a + b

resolved_client(project, names_by_client) ==
    IF project.client_name # None THEN project.client_name
    ELSE IF project.client_id # None /\ The(project.client_id) \in DOMAIN names_by_client
         THEN Some(names_by_client[The(project.client_id)])
         ELSE None

\* The project_info map: a later project of the slice replaces an earlier one
\* with the same id, and the key None is "No Project" without client.
project_info(project_slice, names_by_client) ==
    LET last(id) == project_slice[CHOOSE i \in DOMAIN project_slice :
                        /\ project_slice[i].id = id
                        /\ \A j \in DOMAIN project_slice : project_slice[j].id = id => j <= i]
    IN [k \in {Some(project_slice[i].id) : i \in DOMAIN project_slice} \cup {None} |->
          IF k = None THEN <<"No Project", None>>
          ELSE <<last(The(k)).name, resolved_client(last(The(k)), names_by_client)>>]

description_key(entry) ==
    IF entry.description = None THEN "No description" ELSE The(entry.description)

\* The durations, in slice order, of the entries of one (project, description).
durations_of(entries, project_key, description) ==
    LET of_group(e) == e.project_id = project_key /\ description_key(e) = description
        sel == SelectSeq(entries, of_group)
    IN [i \in DOMAIN sel |-> sel[i].duration]

\* `+= entry.duration` over the entries of one group, from 0.
RECURSIVE sum_durations(_, _)
sum_durations(durations, overflow_checks) ==
    IF durations = <<>> THEN 0
    ELSE LET before == sum_durations(SubSeq(durations, 1, Len(durations) - 1), overflow_checks)
         IN IF before = Panic THEN Panic
            ELSE Arith(before + durations[Len(durations)], overflow_checks)

apply_rounding(seconds, rounding, overflow_checks) ==
    IF seconds = Panic THEN Panic
    ELSE IF rounding # None THEN round_seconds(seconds, The(rounding), overflow_checks)
    ELSE seconds

line_seconds_rounded_each(durations, rounding, overflow_checks) ==
    sum_durations([i \in DOMAIN durations |->
                      apply_rounding(durations[i], rounding, overflow_checks)],
                  overflow_checks)
\* rounded_seconds of a line: the raw durations of the group are summed, and
\* the sum is rounded.
line_seconds(durations, rounding, overflow_checks) ==
    apply_rounding(sum_durations(durations, overflow_checks), rounding, overflow_checks)

fold_total_last(total_seconds, rounded_seconds) == rounded_seconds
\* total_seconds = total_seconds.saturating_add(rounded_seconds)
fold_total(total_seconds, rounded_seconds) ==
    i64_saturating_add(total_seconds, rounded_seconds)

RECURSIVE project_total(_)
project_total(rounded) ==
    IF rounded = <<>> THEN 0
    ELSE fold_total(project_total(SubSeq(rounded, 1, Len(rounded) - 1)), rounded[Len(rounded)])

\* format!("{client} <em dash> {project_name}"); " -- " stands for the dash.
display_name(project_name, client_name) ==
    IF client_name # None THEN The(client_name) \o " -- " \o project_name ELSE project_name

entry_before(a, b) == partial_cmp(b.total_hours, a.total_hours) = "less"

\* rounded_seconds of the lines of one project: descriptions is the order in
\* which the inner HashMap yields the project's descriptions.
rounded_lines(entries, project_key, descriptions, rounding, overflow_checks) ==
    [i \in DOMAIN descriptions |->
        line_seconds(durations_of(entries, project_key, descriptions[i]),
                     rounding, overflow_checks)]

\* One project of the result.
grouped_project(entries, info, project_key, descriptions, rounding, overflow_checks) ==
    LET names == IF project_key \in DOMAIN info THEN info[project_key]
                 ELSE <<"Unknown Project", None>>
        rounded == rounded_lines(entries, project_key, descriptions, rounding, overflow_checks)
        entry_list == [i \in DOMAIN descriptions |->
                         GroupedEntry(descriptions[i], Hours(rounded[i]))]
    IN GroupedProject(names[1], names[2], display_name(names[1], names[2]),
                      Hours(project_total(rounded)),
                      sort_by(entry_list, [i, j \in DOMAIN entry_list |->
                                             entry_before(entry_list[i], entry_list[j])]))

project_before(a, b) ==
    LET by_client == IF a.client_name # None /\ b.client_name # None
                     THEN str_cmp(The(a.client_name), The(b.client_name))
                     ELSE IF a.client_name = None /\ b.client_name # None THEN "greater"
                     ELSE IF a.client_name # None /\ b.client_name = None THEN "less"
                     ELSE "equal"
        by_total == partial_cmp(b.total_hours, a.total_hours)
        by_name == str_cmp(a.project_name, b.project_name)
    IN IF by_client # "equal" THEN by_client = "less"
       ELSE IF by_total # "equal" THEN by_total = "less"
       ELSE by_name = "less"

project_keys(entries) == {entries[i].project_id : i \in DOMAIN entries}
descriptions_in(entries, project_key) ==
    {description_key(entries[i]) : i \in {j \in DOMAIN entries : entries[j].project_id = project_key}}

\* grouping::group_entries.  keys is the order in which the outer HashMap
\* yields the project keys and inner[k] the order in which the map of project
\* k yields its descriptions.
group_entries(entries, project_slice, names_by_client, rounding, overflow_checks, keys, inner) ==
    LET info == project_info(project_slice, names_by_client)
        result == [i \in DOMAIN keys |->
                     grouped_project(entries, info, keys[i], inner[keys[i]],
                                     rounding, overflow_checks)]
    IN sort_by(result, [i, j \in DOMAIN result |-> project_before(result[i], result[j])])

\* group_entries panics when a sum or a rounding does.
group_entries_panics(entries, rounding, overflow_checks) ==
    \E k \in project_keys(entries) : \E d \in descriptions_in(entries, k) :
        line_seconds(durations_of(entries, k, d), rounding, overflow_checks) = Panic

\* The inputs: projects 1 (of client 1) and 2 (no client) are known, project 3
\* is not; durations of 20 s and 14 min.
MaxEntries == 3
GroupProjects ==
    <<NamedProject(1, "Project A", Some(1), None), NamedProject(2, "Project B", None, None)>>
GroupClientNames == [id \in {1} |-> "Client"]
GroupProjectKeys == {None, Some(1), Some(3)}
GroupDescriptions == {None, Some("Ticket 1")}
GroupDurations == {20, 840}
TimedEntries ==
    {TimedEntry(p, d, s) : p \in GroupProjectKeys, d \in GroupDescriptions, s \in GroupDurations}
EntrySlices == UNION {[1..n -> TimedEntries] : n \in 0..MaxEntries}
GroupRoundings ==
    {None, Some(RoundingConfig(1, "Closest")), Some(RoundingConfig(15, "Closest")),
     Some(RoundingConfig(1, "Up"))}

InitGroup ==
    \E entries \in EntrySlices, rounding \in GroupRoundings, overflow_checks \in BOOLEAN :
        AppAt("input", [entries |-> entries, rounding |-> rounding,
                        overflow_checks |-> overflow_checks, grouped |-> None])

\* The orders in which the inner maps can yield their descriptions.
InnerOrders(entries) ==
    {inner \in [project_keys(entries) ->
                   UNION {ScanOrders(descriptions_in(entries, k)) : k \in project_keys(entries)}] :
        \A k \in project_keys(entries) : inner[k] \in ScanOrders(descriptions_in(entries, k))}

\* group_entries(&valid_entries, &projects, &client_names, self.rounding.as_ref())
group ==
    /\ pc = "input"
    /\ IF group_entries_panics(loc.entries, loc.rounding, loc.overflow_checks)
       THEN pc' = "panicked" /\ UNCHANGED loc
       ELSE /\ \E keys \in ScanOrders(project_keys(loc.entries)),
                  inner \in InnerOrders(loc.entries) :
                   loc' = [loc EXCEPT !.grouped =
                              Some(group_entries(loc.entries, GroupProjects, GroupClientNames,
                                                 loc.rounding, loc.overflow_checks, keys, inner))]
            /\ pc' = "grouped"
    /\ UNCHANGED pure_vars

NextGroup == group
SpecGroup == InitGroup /\ [][NextGroup]_vars

\* ------------------------------------------------------------------ rollups
\* A NaiveDate of the rollups is a day number: day 1 is Saturday 2024-12-28,
\* so that the first days hold a week boundary for either week start (Sunday
\* day 2, Monday day 3) and a month and year boundary (day 5 is 2025-01-01).
MaxDate == 7
Dates == 1..MaxDate
\* Datelike::weekday().num_days_from_monday(), num_days_from_sunday()
num_days_from_monday(date) == (date + 74) % 7
num_days_from_sunday(date) == (num_days_from_monday(date) + 1) % 7
\* Datelike::year(), month(), day(), for the dates up to 2025-01-31
year(date) == IF date <= 4 THEN 2024 ELSE 2025
month(date) == IF date <= 4 THEN 12 ELSE 1
day(date) == IF date <= 4 THEN 27 + date ELSE date - 4
\* Datelike::iso_week(): <<week, year>> of the week, Monday to Sunday, of the
\* date; the week of Monday 2024-12-30 (day 3) is week 1 of 2025 and the year
\* 2024 has 52 weeks.
iso_week(date) ==
    LET monday == date - num_days_from_monday(date)
    IN IF monday >= 3 THEN <<(monday - 3) \div 7 + 1, 2025>>
       ELSE <<52 - (3 - monday) \div 7 + 1, 2024>>
\* NaiveDate::format("%Y-%m-%d")
format_ymd(date) == <<year(date), month(date), day(date)>>
succ_skipping(date) == date + 2
\* NaiveDate::succ_opt().unwrap_or(current + Duration::days(1))
succ(date) == date + 1

WeekStarts == {"Monday", "Sunday"}

\* What rollups.rs reads of a time entry.
DatedEntry(start, duration) == [start |-> start, duration |-> duration]
\* An RFC-3339 string that names the calendar date `written` with an offset by
\* which the same instant falls `shift` days later in the local zone.
Rfc3339Zoned(written, shift) == <<"ts", written, shift>>
\* DateTime::with_timezone(&Local).date_naive()
local_date_naive(dt) == dt[2] + dt[3]
\* rollups::parse_entry_date
rollups_parse_entry_date(entry) ==
    IF entry.start[1] = "ts" THEN Some(local_date_naive(entry.start)) ELSE None

DailyTotal(date, seconds) == [date |-> date, seconds |-> seconds]
PeriodRollup(label, start, end, days, seconds) ==
    [label |-> label, start |-> start, end |-> end, days |-> days, seconds |-> seconds]
Rollups(daily, weekly, monthly, yearly) ==
    [daily |-> daily, weekly |-> weekly, monthly |-> monthly, yearly |-> yearly]

\* The durations, in slice order, of the entries that build_rollups counts for
\* a date: the start parses and its local date is that date.
durations_on(entries, date) ==
    LET on_date(e) == rollups_parse_entry_date(e) = Some(date)
        sel == SelectSeq(entries, on_date)
    IN [i \in DOMAIN sel |-> sel[i].duration]

date_seconds_rounded_sum(durations, rounding, overflow_checks) ==
    apply_rounding(sum_durations(durations, overflow_checks), rounding, overflow_checks)
\* totals[date]: every entry's duration is rounded, and the rounded durations
\* are added up.
date_seconds(durations, rounding, overflow_checks) ==
    sum_durations([i \in DOMAIN durations |->
                      apply_rounding(durations[i], rounding, overflow_checks)],
                  overflow_checks)

\* An entry is skipped when `date < start || date > end`.
date_counted(date, start, end) == ~(date < start \/ date > end)

\* The totals map of build_rollups: a date has a key when an entry is counted
\* for it.
rollup_totals(entries, start, end, rounding, overflow_checks) ==
    LET counted == {date \in {The(rollups_parse_entry_date(entries[i])) :
                                 i \in {j \in DOMAIN entries :
                                           rollups_parse_entry_date(entries[j]) # None}} :
                       date_counted(date, start, end)}
    IN [date \in counted |->
           date_seconds(durations_on(entries, date), rounding, overflow_checks)]

RECURSIVE build_daily_totals(_, _, _)
build_daily_totals(totals, current, end) ==
    IF current <= end
    THEN <<DailyTotal(current, IF current \in DOMAIN totals THEN totals[current] ELSE 0)>>
         \o build_daily_totals(totals, succ(current), end)
    ELSE <<>>

start_of_week_monday(date, week_start) == date - num_days_from_monday(date)
start_of_week(date, week_start) ==
    date - (IF week_start = "Monday" THEN num_days_from_monday(date)
            ELSE num_days_from_sunday(date))

add_seconds_kept(seconds, day_seconds, overflow_checks) == seconds
\* `rollup.seconds += day.seconds`
add_seconds(seconds, day_seconds, overflow_checks) ==
    IF seconds = Panic \/ day_seconds = Panic THEN Panic
    ELSE Arith(seconds + day_seconds, overflow_checks)

\* The loop shared by the weekly, monthly and yearly rollups: keys[i] is the
\* key of daily[i]; a day whose key differs from the current one closes the
\* current rollup and opens the next, and every day extends the current one.
\* The labels are set afterwards.
RECURSIVE period_rollups(_, _, _)
period_rollups(daily, keys, overflow_checks) ==
    IF daily = <<>> THEN <<>>
    ELSE LET n == Len(daily)
             rollups == period_rollups(SubSeq(daily, 1, n - 1), SubSeq(keys, 1, n - 1),
                                       overflow_checks)
             opened == IF n = 1 \/ keys[n - 1] # keys[n]
                       THEN Append(rollups, PeriodRollup(<<>>, daily[n].date, daily[n].date, 0, 0))
                       ELSE rollups
             current == opened[Len(opened)]
         IN [opened EXCEPT ![Len(opened)] =
                PeriodRollup(<<>>, current.start, daily[n].date, current.days + 1,
                             add_seconds(current.seconds, daily[n].seconds, overflow_checks))]

\* format!("W{:02} {} ({} -> {})", week, year, start, end)
week_label(rollup, week_start) ==
    <<"W", iso_week(start_of_week(rollup.start, week_start))[1],
      iso_week(start_of_week(rollup.start, week_start))[2],
      format_ymd(rollup.start), format_ymd(rollup.end)>>
\* NaiveDate::format("%b %Y")
month_label(rollup) == <<month(rollup.end), year(rollup.end)>>
year_label(rollup) == <<year(rollup.end)>>

build_weekly_rollups(daily, week_start, overflow_checks) ==
    LET rollups == period_rollups(daily, [i \in DOMAIN daily |->
                                            start_of_week(daily[i].date, week_start)],
                                  overflow_checks)
    IN [i \in DOMAIN rollups |-> [rollups[i] EXCEPT !.label = week_label(rollups[i], week_start)]]

build_monthly_rollups(daily, overflow_checks) ==
    LET rollups == period_rollups(daily, [i \in DOMAIN daily |->
                                            <<year(daily[i].date), month(daily[i].date)>>],
                                  overflow_checks)
    IN [i \in DOMAIN rollups |-> [rollups[i] EXCEPT !.label = month_label(rollups[i])]]

build_yearly_rollups(daily, overflow_checks) ==
    LET rollups == period_rollups(daily, [i \in DOMAIN daily |-> year(daily[i].date)],
                                  overflow_checks)
    IN [i \in DOMAIN rollups |-> [rollups[i] EXCEPT !.label = year_label(rollups[i])]]

\* rollups::build_rollups
build_rollups(entries, start, end, rounding, week_start, overflow_checks) ==
    LET daily == build_daily_totals(
                     rollup_totals(entries, start, end, rounding, overflow_checks), start, end)
    IN Rollups(daily, build_weekly_rollups(daily, week_start, overflow_checks),
               build_monthly_rollups(daily, overflow_checks),
               build_yearly_rollups(daily, overflow_checks))

\* build_rollups panics when a sum or a rounding does.
build_rollups_panics(entries, start, end, rounding, week_start, overflow_checks) ==
    LET rollups == build_rollups(entries, start, end, rounding, week_start, overflow_checks)
        panics(list) == \E i \in DOMAIN list : list[i].seconds = Panic
    IN \/ panics(rollups.daily) \/ panics(rollups.weekly)
       \/ panics(rollups.monthly) \/ panics(rollups.yearly)

\* The inputs: entries of 500 s and of 14 min whose start does not parse or
\* names day 3 or day 5, read in the local zone as that day or the day after.
MaxRollupEntries == 2
RollupStarts ==
    {RawString(1)} \cup {Rfc3339Zoned(written, shift) : written \in {3, 5}, shift \in {0, 1}}
RollupDurations == {500, 840}
DatedEntries == {DatedEntry(s, d) : s \in RollupStarts, d \in RollupDurations}
DatedSlices == UNION {[1..n -> DatedEntries] : n \in 0..MaxRollupEntries}
RollupRoundings == {None, Some(RoundingConfig(15, "Closest"))}

InitRollups ==
    \E entries \in DatedSlices, start \in Dates, end \in Dates, rounding \in RollupRoundings,
       week_start \in WeekStarts, overflow_checks \in BOOLEAN :
        /\ start <= end
        /\ AppAt("input", [entries |-> entries, start |-> start, end |-> end,
                           rounding |-> rounding, week_start |-> week_start,
                           overflow_checks |-> overflow_checks, rollups |-> None])

\* build_rollups(&rollup_entries, rollup_start, rollup_end, self.rounding.as_ref(),
\*               self.rollups_week_start)
rollup ==
    /\ pc = "input"
    /\ IF build_rollups_panics(loc.entries, loc.start, loc.end, loc.rounding,
                               loc.week_start, loc.overflow_checks)
       THEN pc' = "panicked" /\ UNCHANGED loc
       ELSE /\ loc' = [loc EXCEPT !.rollups =
                          Some(build_rollups(loc.entries, loc.start, loc.end, loc.rounding,
                                             loc.week_start, loc.overflow_checks))]
            /\ pc' = "built"
    /\ UNCHANGED pure_vars

NextRollups == rollup
SpecRollups == InitRollups /\ [][NextRollups]_vars

\* ------------------------------------------------------------------ targets
\* The targets and deltas of ui.rs.  An f64 number of hours is held as the
\* number of seconds it equals: the configured target has two decimals of an
\* hour (36 s steps) and the worked totals are whole seconds.
\* normalize_delta's dead zone: `value.abs() < 0.005` hours is under 18 s.
DeadZoneSeconds == 18
\* hours_from_seconds
hours_from_seconds(seconds) == seconds
\* normalize_delta
normalize_delta(value) ==
    IF (IF value < 0 THEN -value ELSE value) < DeadZoneSeconds THEN 0 ELSE value

\* Datelike::weekday().number_from_monday()
number_from_monday(date) == num_days_from_monday(date) + 1

target_hours_for_day_forgetting_flags(date, target_hours, include_weekends, non_working_days) ==
    IF include_weekends \/ number_from_monday(date) <= 5 THEN target_hours ELSE 0
\* ui::target_hours_for_day
target_hours_for_day(date, target_hours, include_weekends, non_working_days) ==
    IF date \in non_working_days THEN 0
    ELSE IF include_weekends \/ number_from_monday(date) <= 5 THEN target_hours
    ELSE 0

\* ui::period_target_hours: <<total, days>>, the while loop from `current` on.
RECURSIVE period_target_from(_, _, _, _, _)
period_target_from(current, end, target_hours, include_weekends, non_working_days) ==
    IF current <= end
    THEN LET target == target_hours_for_day(current, target_hours, include_weekends,
                                            non_working_days)
             rest == period_target_from(succ(current), end, target_hours,
                                        include_weekends, non_working_days)
         IN <<target + rest[1], (IF target > 0 THEN 1 ELSE 0) + rest[2]>>
    ELSE <<0, 0>>
period_target_hours(period, target_hours, include_weekends, non_working_days) ==
    period_target_from(period.start, period.end, target_hours, include_weekends,
                       non_working_days)

\* The fold of period_overtime_left_hours over the days of `daily` from
\* period.start to cutoff: <<worked_seconds, target_total>>.
RECURSIVE worked_and_target(_, _, _, _, _, _)
worked_and_target(daily, first, cutoff, target_hours, include_weekends, non_working_days) ==
    IF daily = <<>> THEN <<0, 0>>
    ELSE LET rest == worked_and_target(Tail(daily), first, cutoff, target_hours,
                                       include_weekends, non_working_days)
             total == Head(daily)
         IN IF total.date >= first /\ total.date <= cutoff
            THEN <<total.seconds + rest[1],
                   target_hours_for_day(total.date, target_hours, include_weekends,
                                        non_working_days) + rest[2]>>
            ELSE rest

period_overtime_left_hours_whole_period(period, daily, target_hours, include_weekends, non_working_days, active_end) ==
    LET folded == worked_and_target(daily, period.start, period.end, target_hours,
                                    include_weekends, non_working_days)
        overtime == normalize_delta(hours_from_seconds(folded[1]) - folded[2])
    IN IF overtime > 0 THEN overtime ELSE 0
\* ui::period_overtime_left_hours
period_overtime_left_hours(period, daily, target_hours, include_weekends, non_working_days, active_end) ==
    LET cutoff == Min(period.end, active_end)
    IN IF cutoff < period.start THEN 0
       ELSE LET folded == worked_and_target(daily, period.start, cutoff, target_hours,
                                            include_weekends, non_working_days)
                overtime == normalize_delta(hours_from_seconds(folded[1]) - folded[2])
            IN IF overtime > 0 THEN overtime ELSE 0

\* The inputs: the days 1..MaxTargetDate (a Saturday, a Sunday, a Monday, a
\* Tuesday), each with 0 s, 8 h or 8 h 10 s worked; a target of 0 or 8 hours;
\* at most one day flagged non-working; a period and an active range end
\* among the days.
MaxTargetDate == 4
TargetDates == 1..MaxTargetDate
WorkedSeconds == {0, 28800, 28810}
TargetHours == {0, 28800}
DailyTotalLists ==
    {[i \in TargetDates |-> DailyTotal(i, worked[i])] : worked \in [TargetDates -> WorkedSeconds]}
\* The seconds of the period covering the days first..last of `daily`.
RECURSIVE SumOfDaily(_, _, _)
SumOfDaily(daily, first, last) ==
    IF first > last THEN 0 ELSE daily[first].seconds + SumOfDaily(daily, first + 1, last)
NonWorkingDaySets == {{}} \cup {{date} : date \in TargetDates}

InitTargets ==
    \E daily \in DailyTotalLists, first \in TargetDates, last \in TargetDates,
       target_hours \in TargetHours, include_weekends \in BOOLEAN,
       non_working_days \in NonWorkingDaySets, active_end \in TargetDates :
        /\ first <= last
        /\ AppAt("input", [daily |-> daily,
                           period |-> PeriodRollup(<<>>, first, last, last - first + 1,
                                                   SumOfDaily(daily, first, last)),
                           target_hours |-> target_hours,
                           include_weekends |-> include_weekends,
                           non_working_days |-> non_working_days,
                           active_end |-> active_end,
                           target |-> None, overtime |-> None])

\* period_target_hours(period, app.target_hours, app.rollups_include_weekends, ...)
period_target ==
    /\ pc = "input"
    /\ loc' = [loc EXCEPT !.target =
                  Some(period_target_hours(loc.period, loc.target_hours,
                                           loc.include_weekends, loc.non_working_days))]
    /\ pc' = "target"
    /\ UNCHANGED pure_vars

\* period_overtime_left_hours(period, &app.rollups.daily, ..., app.date_range.end_date())
period_overtime ==
    /\ pc = "target"
    /\ loc' = [loc EXCEPT !.overtime =
                  Some(period_overtime_left_hours(loc.period, loc.daily, loc.target_hours,
                                                  loc.include_weekends, loc.non_working_days,
                                                  loc.active_end))]
    /\ pc' = "overtime"
    /\ UNCHANGED pure_vars

NextTargets == period_target \/ period_overtime
SpecTargets == InitTargets /\ [][NextTargets]_vars

\* ===================================================================== claims
\* Whether the running (or last) handler issued the remote operation op.
Requested(op) == \E i \in DOMAIN calls : calls[i].op = op
\* The call a step appended to the log, if it appended one.
Called == Len(calls') = Len(calls) + 1
LastCall == calls'[Len(calls')]
\* The positions of a refresh cycle after its time-entry step.
AfterEntries == {"backfill", "backfill_each", "clients_again", "finish"}

\* C1 (as stated): in a refresh cycle no remote call, for any resource type,
\* is issued when allow_api is false or when the remaining quota is 0, and the
\* cycle that skipped its time-entry request recorded CacheOnly (the caller
\* did not intend a call) or Quota (it did, the budget was empty).
C1_NoCallWithoutApiOrQuota ==
    /\ \A i \in DOMAIN calls :
          calls[i].cycle = "refresh" => calls[i].allow_api /\ calls[i].left > 0
    /\ (pc \in AfterEntries /\ ~Requested("fetch_time_entries"))
          => loc.cache_reason = Some(IF loc.allow_api THEN "Quota" ELSE "CacheOnly")

\* C2 (as stated): in a refresh cycle with ForceApi intent and quota
\* remaining, workspaces, projects and time entries are each requested from
\* the remote.
C2_EveryResourceRequested ==
    /\ (pc = "projects" /\ loc.allow_api /\ quota_remaining(quota) > 0)
          => Requested("fetch_workspaces")
    /\ (pc = "clients" /\ loc.allow_api /\ quota_remaining(quota) > 0)
          => Requested("fetch_projects")
    /\ (pc \in AfterEntries /\ loc.allow_api /\ loc.cache_reason # Some("Quota"))
          => Requested("fetch_time_entries")

\* C2 (amended): in a refresh cycle with ForceApi intent and quota remaining,
\* time entries are requested from the remote, and workspaces and projects are
\* requested exactly when the cache holds no value for them; on success the
\* fetched value is written through to the cache, replacing any value stored
\* under its key, and is the value the step returns.
C2_ForceApiStep ==
    (loc.allow_api /\ quota_remaining(quota) > 0) =>
        /\ pc = "workspaces" =>
              IF cached_workspaces(cache) # None
              THEN calls' = calls /\ cache' = cache
              ELSE /\ Called /\ LastCall.op = "fetch_workspaces"
                   /\ LastCall.res = "ok" =>
                        /\ cache' # None /\ cache_file' = cache'
                        /\ cached_workspaces(cache') # None
                        /\ The(cached_workspaces(cache')).fetched_at = Rfc3339(now)
                        /\ IF The(cached_workspaces(cache')).data = {}
                           THEN mode' = "Error"
                           ELSE workspace_list' = The(cached_workspaces(cache')).data
        /\ pc = "projects" =>
              IF cached_projects(cache, loc.workspace) # None
              THEN calls' = calls /\ cache' = cache
              ELSE /\ Called /\ LastCall.op = "fetch_projects"
                   /\ LastCall.res = "ok" =>
                        /\ cache_file' = cache'
                        /\ cached_projects(cache', loc.workspace) # None
                        /\ The(cached_projects(cache', loc.workspace)).fetched_at = Rfc3339(now)
                        /\ loc'.projects = The(cached_projects(cache', loc.workspace)).data
        /\ pc = "entries" =>
              /\ Called /\ LastCall.op = "fetch_time_entries"
              /\ LastCall.res = "ok" =>
                    LET stored == cached_time_entries(cache', loc.workspace,
                                        as_rfc3339(date_range)[1], as_rfc3339(date_range)[2])
                    IN  /\ cache_file' = cache'
                        /\ stored # None
                        /\ The(stored).fetched_at = Rfc3339(now)
                        /\ The(stored).data \in RemoteTimeEntries(as_rfc3339(date_range)[1],
                                                                 as_rfc3339(date_range)[2])
                        /\ loc'.entries = ValidEntries(The(stored).data)
C2_ForceApiRequests == [][C2_ForceApiStep]_vars
\* A ForceApi cycle that served workspaces and projects from the cache and
\* replaced the cached time entries by the fetched ones.
C2_Witness ==
    /\ pc = "finish" /\ loc.allow_api
    /\ Len(calls) = 1 /\ calls[1].op = "fetch_time_entries" /\ calls[1].res = "ok"
    /\ date_range = <<1, 1>>
    /\ cache # None
    /\ The(cached_workspaces(cache)).fetched_at = Rfc3339(0)
    /\ The(cached_time_entries(cache, 1, Rfc3339(1), Rfc3339(1))).fetched_at = Rfc3339(now)

\* C3: an Unauthorized response from a remote call of a refresh cycle or of a
\* targeted re-fetch ends the handler at once: it is the last call of its
\* log, the token, the token hash and the cache are cleared, the mode is
\* Login, no refresh is left pending and nothing of the displayed data is
\* replaced from the cache.
C3_UnauthorizedStep ==
    /\ (Called /\ LastCall.res = "Unauthorized") =>
          /\ pc' = "idle" /\ ~needs_refresh'
          /\ token' = None /\ token_hash' = None /\ cache' = None
          /\ mode' = "Login"
          /\ refetch_plan' = None
          /\ UNCHANGED view_vars
    /\ (\E i \in DOMAIN calls : calls[i].res = "Unauthorized") =>
          (calls' = calls \/ calls' = <<>>)
C3_UnauthorizedAborts == [][C3_UnauthorizedStep]_vars
\* A re-fetch that cached its first day and was refused on the second.
C3_Witness ==
    /\ Len(calls) = 2 /\ calls[2].cycle = "refetch"
    /\ calls[1].res = "ok" /\ calls[2].res = "Unauthorized"
    /\ pc = "idle" /\ mode = "Login" /\ cache = None /\ token = None

\* Whether the cache holds a value (exact or merged) for the time entries of
\* the date range, and the values a lookup can return.
CachedEntries ==
    {cached_time_entries_for_range(cache, loc.workspace, as_rfc3339(date_range)[1],
                                   as_rfc3339(date_range)[2], order, now)
        : order \in ScanOrders(TimeEntryKeys(cache))} \ {None}

\* C4: a remote error other than Unauthorized does not abort the cycle when a
\* cached value for the resource exists: the time-entry step leaves the cache
\* as it is, goes on with the cached value and records ApiError, and the
\* cycle that ends publishes that value; workspaces and projects are only
\* requested when no cached value exists, and a failed client request never
\* stops the cycle.
C4_ErrorStep ==
    /\ (pc = "entries" /\ Called /\ LastCall.res = "failed" /\ CachedEntries # {}) =>
          /\ pc' \in {"backfill", "finish"}
          /\ mode' = mode
          /\ cache' = cache /\ cache_file' = cache_file
          /\ loc'.cache_reason = Some("ApiError")
          /\ \E cached \in CachedEntries :
                /\ loc'.entries = ValidEntries(The(cached).data)
                /\ loc'.cache_timestamp = Some(The(cached).fetched_at)
    /\ (pc = "finish" /\ loc.cache_reason = Some("ApiError")) =>
          /\ time_entries' = loc.entries
          /\ mode' \in {"Dashboard", "Rollups"}
          /\ status' = cache_status_message("ApiError", quota)
          /\ cache' = cache
    /\ (pc = "workspaces" /\ Called) => cached_workspaces(cache) = None
    /\ (pc = "projects" /\ Called) => cached_projects(cache, loc.workspace) = None
    /\ (pc \in {"clients", "clients_again"} /\ Called /\ LastCall.res = "failed") =>
          pc' \in {"entries", "finish"} /\ cache' = cache /\ mode' = mode
C4_ErrorFallsBackToCache == [][C4_ErrorStep]_vars
\* A cycle about to end on cached entries after its request failed.
C4_Witness ==
    /\ pc = "finish" /\ loc.cache_reason = Some("ApiError") /\ loc.entries # {}
    /\ \E i \in DOMAIN calls : calls[i].op = "fetch_time_entries" /\ calls[i].res = "failed"

\* C5: while the ledger's date stays the same, used_calls never decreases,
\* whatever steps of refresh, re-fetch and consumption happen; it goes back to
\* zero only in a step that finds the stored date different from today (the
\* ledger's version never changes within a run: read_quota settles it).
C5_LedgerStep ==
    /\ quota'.date = quota.date => quota'.used_calls >= quota.used_calls
    /\ quota'.used_calls < quota.used_calls =>
          /\ quota.date # today
          /\ quota'.date = today /\ quota'.used_calls = 0
    /\ quota'.version = quota.version /\ quota.version = QUOTA_FILE_VERSION
C5_UsedCallsMonotonic == [][C5_LedgerStep]_vars
\* Two calls consumed on one date.
C5_Witness ==
    /\ quota.used_calls = 2 /\ quota.date = today /\ ops = 2 /\ pc = "finish"

\* C6: consume_quota adds exactly one to used_calls below the limit of 30 and
\* leaves it at the limit when it is there; quota_remaining is the limit minus
\* used_calls, and zero when used_calls is above the limit; both give a value
\* for every ledger (a natural number, no error).
C6_ConsumeAndRemaining ==
    /\ pc = "consume_quota" =>
          /\ The(loc.ledger).used_calls < CALL_LIMIT
                => quota.used_calls = The(loc.ledger).used_calls + 1
          /\ The(loc.ledger).used_calls = CALL_LIMIT => quota.used_calls = CALL_LIMIT
          /\ quota.used_calls \in Nat
    /\ quota.used_calls <= CALL_LIMIT
          => quota_remaining(quota) + quota.used_calls = CALL_LIMIT
    /\ quota.used_calls > CALL_LIMIT => quota_remaining(quota) = 0
    /\ quota_remaining(quota) \in Nat
\* A call consumed from a ledger that was at the limit.
C6_Witness ==
    /\ pc = "consume_quota"
    /\ The(loc.ledger).used_calls = CALL_LIMIT /\ quota.used_calls = CALL_LIMIT
    /\ quota_remaining(quota) = 0

\* C7: normalizing a ledger against today gives date = today and
\* used_calls = 0 when its date differs from today or its version from the
\* current one, and gives the ledger back when both agree; {date 1, used 12}
\* against date 2 gives {date 2, used 0}.  ensure_quota_today does the same
\* for the date.
C7_NormalizeResets ==
    /\ (pc = "read_quota" /\ loc.ledger # None) =>
          LET file == The(loc.ledger)
          IN  IF file.date # loc.today \/ file.version # QUOTA_FILE_VERSION
              THEN quota = QuotaFile(QUOTA_FILE_VERSION, loc.today, 0)
              ELSE quota = file
    /\ (pc = "read_quota" /\ loc.ledger = Some(QuotaFile(QUOTA_FILE_VERSION, 1, 12))
          /\ loc.today = 2) => quota = QuotaFile(QUOTA_FILE_VERSION, 2, 0)
    /\ pc = "ensure_quota_today" =>
          LET before == The(loc.ledger)
          IN  IF before.date # loc.today
              THEN quota = [before EXCEPT !.date = loc.today, !.used_calls = 0]
              ELSE quota = before
\* The ledger {date 1, used 12} read on date 2.
C7_Witness ==
    /\ pc = "read_quota"
    /\ loc.ledger = Some(QuotaFile(QUOTA_FILE_VERSION, 1, 12))
    /\ loc.today = 2
    /\ quota = QuotaFile(QUOTA_FILE_VERSION, 2, 0)

\* The lookup last made was a range merge: its exact key is not stored.
Merged ==
    /\ pc = "lookup"
    /\ cached_time_entries(cache, loc.workspace, as_rfc3339(<<loc.start, loc.end>>)[1],
                           as_rfc3339(<<loc.start, loc.end>>)[2]) = None
\* The stored ranges of the lookup's workspace whose bounds intersect [start, end].
Intersecting ==
    {key \in TimeEntryKeys(cache) :
        /\ parse_cache_key_bounds(key) # None
        /\ The(parse_cache_key_bounds(key))[1] = loc.workspace
        /\ The(parse_cache_key_bounds(key))[2] <= loc.end
        /\ The(parse_cache_key_bounds(key))[3] >= loc.start}
\* The entries of a stored range whose own date lies in [start, end].
InsideOf(key) ==
    {entry \in The(cache).time_entries[key].data :
        /\ parse_entry_date(entry) # None
        /\ The(parse_entry_date(entry)) \in loc.start..loc.end}
\* The position of the last write of a key.
LastWrite(key) == CHOOSE i \in DOMAIN calls :
                    calls[i] = key /\ \A j \in DOMAIN calls : calls[j] = key => j <= i

\* C8: a range-merge lookup returns exactly the deduplicated union of the
\* entries stored in ranges of the same workspace that intersect [start, end]
\* and dated inside [start, end]: the ids returned are the ids of that union,
\* each once, every entry returned is one of the union, and nothing is
\* returned when the union is empty.
C8_MergeIsFilteredUnion ==
    Merged =>
        LET union == UNION {InsideOf(key) : key \in Intersecting}
        IN  IF union = {} THEN loc.result = None
            ELSE /\ loc.result # None
                 /\ {entry.id : entry \in The(loc.result).data} = {entry.id : entry \in union}
                 /\ The(loc.result).data \subseteq union
                 /\ \A x, y \in The(loc.result).data : x.id = y.id => x = y
\* Two ranges of the workspace merged into two entries, one id stored twice.
C8_Witness ==
    /\ Merged /\ loc.result # None
    /\ Cardinality(Intersecting) = 2
    /\ Cardinality(The(loc.result).data) = 2
    /\ Cardinality(UNION {InsideOf(key) : key \in Intersecting}) = 3

\* C9 (as stated): when an id is stored in several intersecting ranges, the
\* merge returns the version of the range written to the cache last,
\* whatever the order in which the ranges are visited.
C9_LastWrittenWins ==
    (Merged /\ loc.result # None) =>
        \A entry \in The(loc.result).data :
            LET holders == {key \in Intersecting :
                                \E x \in InsideOf(key) : x.id = entry.id}
                newest == CHOOSE key \in holders :
                                \A other \in holders : LastWrite(other) <= LastWrite(key)
            IN  entry \in InsideOf(newest)

\* C10: a targeted re-fetch over N days that ends without Unauthorized has
\* fetched exactly the days before the first failed call or before the quota
\* ran out: the successful calls are a prefix of the log and at most one
\* failed call ends it; each fetched day is cached under its own single-day
\* key; the report counts the fetched days out of N, names the fetched prefix
\* as cached and the failing day with all later days as skipped, and gives
\* the stop reason (the error's, or the local quota's).
C10_RefetchStep ==
    (pc = "refetch" /\ pc' = "idle" /\ mode' = "Loading") =>
        LET dates == date_span(The(refetch_plan)[1], The(refetch_plan)[2])
            N == Len(dates)
            k == Cardinality({i \in DOMAIN calls' : calls'[i].res = "ok"})
        IN  /\ \A i \in DOMAIN calls' : calls'[i].res = "ok" <=> i <= k
            /\ Len(calls') <= k + 1 /\ k <= N
            /\ \A i \in DOMAIN calls' : calls'[i].op = "fetch_time_entries" /\ calls'[i].paid
            /\ \A i \in 1..k :
                  LET stored == cached_time_entries(cache', The(selected_workspace),
                                                    as_rfc3339(<<dates[i], dates[i]>>)[1],
                                                    as_rfc3339(<<dates[i], dates[i]>>)[2])
                  IN  stored # None /\ The(stored).fetched_at = Rfc3339(now)
            /\ k > 0 => cache_file' = cache'
            /\ toast'.total = N
            /\ IF k = N
               THEN toast'.message = "Refetched" /\ ~toast'.is_error
               ELSE /\ toast'.message = "Partial refetch" /\ toast'.is_error
                    /\ toast'.count = k
                    /\ toast'.cached = IF k = 0 THEN <<>> ELSE <<(<<dates[1], dates[k]>>)>>
                    /\ toast'.skipped = <<(<<dates[k + 1], dates[N]>>)>>
                    /\ IF Len(calls') = k + 1
                       THEN toast'.reason \in {StopReason(err) :
                                                 err \in RemoteErrors \ {"Unauthorized"}}
                       ELSE /\ toast'.reason = "local quota reached"
                            /\ quota_remaining(quota') = 0
C10_RefetchReportsPrefix == [][C10_RefetchStep]_vars
\* Day 3 of 5 answered RateLimited: days 1-2 cached, days 3-5 skipped.
C10_Witness ==
    /\ pc = "idle" /\ mode = "Loading"
    /\ Len(calls) = 3 /\ calls[1].res = "ok" /\ calls[2].res = "ok" /\ calls[3].res = "failed"
    /\ toast.count = 2 /\ toast.total = 5
    /\ toast.cached = <<(<<1, 2>>)>> /\ toast.skipped = <<(<<3, 5>>)>>
    /\ toast.reason = "Toggl rate limit reached"
    /\ cached_time_entries(cache, 1, Rfc3339(2), Rfc3339(2)) # None
    /\ cached_time_entries(cache, 1, Rfc3339(3), Rfc3339(3)) = None

\* C11: a targeted re-fetch started with remaining quota R over N days issues
\* at most min(N, R) remote calls; every call it issues, failed ones too, is
\* decided with a remaining quota above 0 and takes exactly one unit off the
\* ledger (written to the quota file); a step that issues no call leaves the
\* ledger alone, so the units consumed equal the calls issued.
C11_RefetchStep ==
    (pc = "refetch" \/ pc' = "refetch") =>
        LET N == Len(date_span(The(refetch_plan)[1], The(refetch_plan)[2]))
            R == (CALL_LIMIT - quota'.used_calls) + Len(calls')
        IN  /\ pc = "refetch" /\ Called =>
                /\ CALL_LIMIT - quota.used_calls > 0
                /\ quota'.used_calls = quota.used_calls + 1
                /\ quota_file' = Some(quota')
                /\ LastCall.paid /\ LastCall.op = "fetch_time_entries"
            /\ pc = "refetch" /\ ~Called => quota' = quota /\ calls' = calls
            /\ pc = "refetch" => R = (CALL_LIMIT - quota.used_calls) + Len(calls)
            /\ Len(calls') <= Min(N, R)
            /\ quota'.used_calls <= CALL_LIMIT
C11_RefetchQuota == [][C11_RefetchStep]_vars
\* Five days asked with two calls left: the first call succeeds, the second
\* fails and is paid for all the same; no third call is made.
C11_Witness ==
    /\ pc = "idle" /\ mode = "Loading" /\ toast.total = 5
    /\ Len(calls) = 2 /\ calls[1].left = 2
    /\ calls[1].res = "ok" /\ calls[2].res = "failed" /\ calls[2].paid
    /\ quota.used_calls = CALL_LIMIT

\* The messages handle_error gives to a remote failure other than Unauthorized.
ApiErrorMessages == {error_status(err) : err \in RemoteErrors \ {"Unauthorized"}}
\* Whether the cache holds nothing for the resource the cycle is resolving
\* (workspaces, projects of the workspace, time entries of the range by exact
\* or merged lookup under any iteration order).
NothingCached ==
    CASE pc = "workspaces" -> cached_workspaces(cache) = None
      [] pc = "projects" -> cached_projects(cache, loc.workspace) = None
      [] pc = "entries" ->
            \A order \in ScanOrders(TimeEntryKeys(cache)) :
                cached_time_entries_for_range(
                    cache, loc.workspace, as_rfc3339(date_range)[1],
                    as_rfc3339(date_range)[2], order, now) = None
      [] OTHER -> FALSE
\* A step that resolves workspaces, projects or time entries and obtains the
\* resource neither from the network (no call, or a call that failed other
\* than by Unauthorized, which aborts to the login state) nor from the cache.
Unobtained ==
    /\ pc \in {"workspaces", "projects", "entries"}
    /\ pc' # pc
    /\ NothingCached
    /\ ~Called \/ LastCall.res = "failed"

\* C12 (as stated): a refresh that obtains workspaces, projects or time
\* entries neither from the network nor from the cache ends in the Error
\* mode with a message that tells the cause: under CacheOnly nothing is
\* requested and the message is the 'no cached data, press r' one; under
\* ForceApi with exhausted quota it is the quota-exhausted one; otherwise a
\* remote call failed and the message is that API error's.
C12_ErrorStep ==
    Unobtained =>
        /\ mode' = "Error" /\ pc' = "idle"
        /\ IF ~loc.allow_api
           THEN ~Called /\ status' = no_cache_message
           ELSE IF quota_remaining(quota) = 0
           THEN status' = quota_exhausted_message(quota)
           ELSE Called /\ status' \in ApiErrorMessages
        /\ no_cache_message # quota_exhausted_message(quota)
        /\ {no_cache_message, quota_exhausted_message(quota)} \cap ApiErrorMessages = {}
C12_ErrorTellsCause == [][C12_ErrorStep]_vars

\* The inputs on which round_seconds computes without leaving i64: rounding
\* off, or a value other than i64::MIN whose upper multiple, where the mode
\* needs it, is at most i64::MAX.
Magnitude(n) == IF n < 0 THEN 0 - n ELSE n
OverflowFree(seconds, cfg) ==
    \/ cfg.increment_minutes = 0
    \/ /\ seconds # I64Min
       /\ \/ cfg.mode = "Down"
          \/ Magnitude(seconds) % (cfg.increment_minutes * 60) = 0
          \/ (Magnitude(seconds) \div (cfg.increment_minutes * 60) + 1)
                * (cfg.increment_minutes * 60) <= I64Max

Multiples(step) == {k * step : k \in 0..(2^IntWidth \div step + 1)}
GreatestBelow(a, step) ==
    CHOOSE m \in Multiples(step) :
        m <= a /\ \A n \in Multiples(step) : n <= a => n <= m
LeastAbove(a, step) ==
    CHOOSE m \in Multiples(step) :
        m >= a /\ \A n \in Multiples(step) : n >= a => n >= m
ReferenceMagnitude(a, step, m) ==
    CASE m = "Down" -> GreatestBelow(a, step)
      [] m = "Up" -> LeastAbove(a, step)
      [] m = "Closest" ->
            IF LeastAbove(a, step) - a <= a - GreatestBelow(a, step)
            THEN LeastAbove(a, step) ELSE GreatestBelow(a, step)
Reference(seconds, cfg) ==
    IF cfg.increment_minutes = 0 THEN seconds
    ELSE (IF seconds < 0 THEN 0 - 1 ELSE 1)
            * ReferenceMagnitude(Magnitude(seconds), cfg.increment_minutes * 60,
                                 cfg.mode)

Seconds(total_hours) == (total_hours[1] * SecondsPerHour) \div total_hours[2]
RECURSIVE SumOfLines(_)
SumOfLines(lines) ==
    IF lines = <<>> THEN 0 ELSE Seconds(lines[1].total_hours) + SumOfLines(Tail(lines))

\* C16: with a rounding configuration and without one, the total of every
\* grouped project, in seconds, is the sum of the totals of the description
\* lines shown under it.
C16_TotalIsSumOfLines ==
    pc = "grouped" =>
        \A i \in DOMAIN The(loc.grouped) :
            Seconds(The(loc.grouped)[i].total_hours) = SumOfLines(The(loc.grouped)[i].entries)
\* Two 14-minute entries of project 1 under two descriptions, rounded to the
\* closest 15 minutes: two lines of 900 s and a project total of 1800 s.
C16_Witness ==
    /\ pc = "grouped"
    /\ loc.rounding = Some(RoundingConfig(15, "Closest"))
    /\ loc.entries = <<TimedEntry(Some(1), None, 840), TimedEntry(Some(1), Some("Ticket 1"), 840)>>
    /\ \E i \in DOMAIN The(loc.grouped) :
          /\ The(loc.grouped)[i].project_name = "Project A"
          /\ Len(The(loc.grouped)[i].entries) = 2
          /\ \A j \in 1..2 : Seconds(The(loc.grouped)[i].entries[j].total_hours) = 900
          /\ Seconds(The(loc.grouped)[i].total_hours) = 1800

\* The exact sum of the raw durations of the entries at the indices in S.
RECURSIVE RawSum(_, _)
RawSum(entries, S) ==
    IF S = {} THEN 0
    ELSE LET i == CHOOSE i \in S : TRUE IN entries[i].duration + RawSum(entries, S \ {i})
EntriesOf(entries, project_key, description) ==
    {i \in DOMAIN entries : /\ entries[i].project_id = project_key
                            /\ description_key(entries[i]) = description}
\* The name under which the entries of a project key are shown.
KeyName(project_key) ==
    IF project_key = None THEN "No Project"
    ELSE IF \E i \in DOMAIN GroupProjects : GroupProjects[i].id = The(project_key)
         THEN (CHOOSE p \in {GroupProjects[i] : i \in DOMAIN GroupProjects} :
                   p.id = The(project_key)).name
         ELSE "Unknown Project"
RoundedOnce(seconds) ==
    IF loc.rounding = None THEN seconds
    ELSE round_seconds(seconds, The(loc.rounding), loc.overflow_checks)

\* C17: the result has one group per project key and, in it, one line per
\* description; the value of a line is the sum of the raw durations of all
\* entries with that project key and description, rounded once (not the sum
\* of the entries' rounded durations); the entries without project id form the
\* one group "No Project", which has no client.
C17_SumThenRoundOnce ==
    pc = "grouped" =>
        LET grouped == The(loc.grouped)
            groups_of(k) == {i \in DOMAIN grouped : grouped[i].project_name = KeyName(k)}
            lines_of(i, d) == {j \in DOMAIN grouped[i].entries :
                                  grouped[i].entries[j].description = d}
        IN /\ Len(grouped) = Cardinality(project_keys(loc.entries))
           /\ \A k \in project_keys(loc.entries) :
                 /\ Cardinality(groups_of(k)) = 1
                 /\ \A i \in groups_of(k) :
                       /\ k = None => grouped[i].client_name = None
                       /\ Len(grouped[i].entries)
                              = Cardinality(descriptions_in(loc.entries, k))
                       /\ \A d \in descriptions_in(loc.entries, k) :
                             /\ Cardinality(lines_of(i, d)) = 1
                             /\ \A j \in lines_of(i, d) :
                                   Seconds(grouped[i].entries[j].total_hours)
                                       = RoundedOnce(RawSum(loc.entries,
                                                            EntriesOf(loc.entries, k, d)))
\* Two 20-second entries without project and with the same description, rounded
\* to the closest minute: one "No Project" group with one line of 60 s, where
\* the entries rounded one by one would give 0.
C17_Witness ==
    /\ pc = "grouped"
    /\ loc.rounding = Some(RoundingConfig(1, "Closest"))
    /\ loc.entries = <<TimedEntry(None, Some("Ticket 1"), 20), TimedEntry(None, Some("Ticket 1"), 20)>>
    /\ RoundedOnce(20) + RoundedOnce(20) = 0
    /\ Len(The(loc.grouped)) = 1
    /\ The(loc.grouped)[1].project_name = "No Project"
    /\ The(loc.grouped)[1].client_name = None
    /\ Len(The(loc.grouped)[1].entries) = 1
    /\ Seconds(The(loc.grouped)[1].entries[1].total_hours) = 60

\* C18: for start <= end, the daily totals are the (end - start) + 1 dates
\* from start to end, one after the other in ascending order, none missing and
\* none twice, and a date for which no entry is counted has the total 0.
C18_OneTotalPerDate ==
    pc = "built" /\ loc.start <= loc.end =>
        LET daily == The(loc.rollups).daily
        IN /\ Len(daily) = (loc.end - loc.start) + 1
           /\ \A i \in DOMAIN daily : daily[i].date = loc.start + (i - 1)
           /\ \A date \in loc.start..loc.end :
                 Cardinality({i \in DOMAIN daily : daily[i].date = date}) = 1
           /\ \A i \in DOMAIN daily :
                 durations_on(loc.entries, daily[i].date) = <<>> => daily[i].seconds = 0
\* The range of days 3 to 5 with one 14-minute entry on day 3: three daily
\* totals, the second and the third 0.
C18_Witness ==
    /\ pc = "built"
    /\ loc.start = 3 /\ loc.end = 5
    /\ loc.rounding = None
    /\ loc.entries = <<DatedEntry(Rfc3339Zoned(3, 0), 840)>>
    /\ The(loc.rollups).daily = <<DailyTotal(3, 840), DailyTotal(4, 0), DailyTotal(5, 0)>>

RECURSIVE SumOfSeconds(_)
SumOfSeconds(list) == IF list = <<>> THEN 0 ELSE list[1].seconds + SumOfSeconds(Tail(list))
\* The daily totals of the dates from first to last.
DailyWithin(daily, first, last) ==
    LET within(total) == first <= total.date /\ total.date <= last
    IN SelectSeq(daily, within)
PeriodSumsItsDays(daily, period) ==
    /\ period.seconds = SumOfSeconds(DailyWithin(daily, period.start, period.end))
    /\ period.days = Len(DailyWithin(daily, period.start, period.end))

\* C19: the seconds of every weekly, monthly and yearly period are the sum of
\* the daily totals of the dates from the period's start to its end, its days
\* are the number of those dates, and the weekly, the monthly and the yearly
\* seconds each add up to the sum of all daily totals.
C19_PeriodsSumDailyTotals ==
    pc = "built" =>
        LET rollups == The(loc.rollups)
        IN /\ \A i \in DOMAIN rollups.weekly : PeriodSumsItsDays(rollups.daily, rollups.weekly[i])
           /\ \A i \in DOMAIN rollups.monthly : PeriodSumsItsDays(rollups.daily, rollups.monthly[i])
           /\ \A i \in DOMAIN rollups.yearly : PeriodSumsItsDays(rollups.daily, rollups.yearly[i])
           /\ SumOfSeconds(rollups.weekly) = SumOfSeconds(rollups.daily)
           /\ SumOfSeconds(rollups.monthly) = SumOfSeconds(rollups.daily)
           /\ SumOfSeconds(rollups.yearly) = SumOfSeconds(rollups.daily)
\* Days 1 to 7 with weeks starting on Monday, 840 s on day 3 and 500 s on day
\* 6: the week of days 1-2 has 0 s and the week of days 3-7 has 1340 s; the
\* month and the year of days 1-4 have 840 s, those of days 5-7 have 500 s.
C19_Witness ==
    /\ pc = "built"
    /\ loc.start = 1 /\ loc.end = 7
    /\ loc.week_start = "Monday"
    /\ loc.rounding = None
    /\ loc.entries = <<DatedEntry(Rfc3339Zoned(3, 0), 840), DatedEntry(Rfc3339Zoned(5, 1), 500)>>
    /\ LET periods(list) == [i \in DOMAIN list |->
                               <<list[i].start, list[i].end, list[i].days, list[i].seconds>>]
       IN /\ periods(The(loc.rollups).weekly) = <<<<1, 2, 2, 0>>, <<3, 7, 5, 1340>>>>
          /\ periods(The(loc.rollups).monthly) = <<<<1, 4, 4, 840>>, <<5, 7, 3, 500>>>>
          /\ periods(The(loc.rollups).yearly) = <<<<1, 4, 4, 840>>, <<5, 7, 3, 500>>>>

\* The sum, over the entries at the indices in S, of each duration rounded by
\* the configured rounding (or as it is, without rounding).
RECURSIVE SumOfRounded(_, _)
SumOfRounded(entries, S) ==
    IF S = {} THEN 0
    ELSE LET i == CHOOSE i \in S : TRUE
         IN RoundedOnce(entries[i].duration) + SumOfRounded(entries, S \ {i})
StartedOn(entries, date) ==
    {i \in DOMAIN entries : rollups_parse_entry_date(entries[i]) = Some(date)}

\* C20: the daily total of a date is the sum, over the entries whose start
\* falls on that date in the local zone, of each entry's duration rounded on
\* its own; an entry whose start does not parse or whose date lies outside
\* start..end adds to no daily total.
C20_DailyTotalRoundsEachEntry ==
    pc = "built" =>
        LET daily == The(loc.rollups).daily
        IN /\ \A i \in DOMAIN daily :
                 daily[i].seconds = SumOfRounded(loc.entries, StartedOn(loc.entries, daily[i].date))
           /\ SumOfSeconds(daily)
                  = SumOfRounded(loc.entries,
                                 UNION {StartedOn(loc.entries, date) : date \in loc.start..loc.end})
\* Two 14-minute entries on day 3, rounded to the closest 15 minutes: the
\* total of day 3 is 30 minutes.
C20_Witness ==
    /\ pc = "built"
    /\ loc.start = 3 /\ loc.end = 3
    /\ loc.rounding = Some(RoundingConfig(15, "Closest"))
    /\ loc.entries = <<DatedEntry(Rfc3339Zoned(3, 0), 840), DatedEntry(Rfc3339Zoned(3, 0), 840)>>
    /\ The(loc.rollups).daily = <<DailyTotal(3, 1800)>>

\* The first day of the week of a date: the last Monday, or Sunday, that is
\* not after the date.
WeekAnchor(date, week_start) ==
    CHOOSE anchor \in (date - 6)..date :
        num_days_from_monday(anchor) = (IF week_start = "Monday" THEN 0 ELSE 6)
\* periods are the maximal runs of days of first..last with the same key, in
\* order; keys[d] is the key of date d.
MaximalRuns(periods, first, last, keys) ==
    /\ periods # <<>>
    /\ periods[1].start = first
    /\ periods[Len(periods)].end = last
    /\ \A i \in DOMAIN periods :
          /\ periods[i].start <= periods[i].end
          /\ \A date \in periods[i].start..periods[i].end : keys[date] = keys[periods[i].start]
    /\ \A i \in 1..(Len(periods) - 1) :
          /\ periods[i + 1].start = periods[i].end + 1
          /\ keys[periods[i + 1].start] # keys[periods[i].end]

\* C21: the weekly, the monthly and the yearly periods are, each, the maximal
\* runs of consecutive days of start..end with the same key (first day of the
\* week under the configured week start; year and month; year), in
\* chronological order, so that every day lies in exactly one period of each
\* kind; a Sunday and the Monday after it are one week when weeks start on
\* Sunday and two when they start on Monday, and a span across 31 December
\* has two yearly periods.
C21_PeriodsAreMaximalRuns ==
    pc = "built" =>
        LET rollups == The(loc.rollups)
            span == loc.start..loc.end
        IN /\ MaximalRuns(rollups.weekly, loc.start, loc.end,
                          [date \in span |-> WeekAnchor(date, loc.week_start)])
           /\ MaximalRuns(rollups.monthly, loc.start, loc.end,
                          [date \in span |-> <<year(date), month(date)>>])
           /\ MaximalRuns(rollups.yearly, loc.start, loc.end, [date \in span |-> year(date)])
           /\ loc.start = 2 /\ loc.end = 3 =>
                 Len(rollups.weekly) = (IF loc.week_start = "Sunday" THEN 1 ELSE 2)
           /\ loc.start <= 4 /\ loc.end = 5 => Len(rollups.yearly) = 2
\* Sunday 2024-12-29 to Wednesday 2025-01-01 with weeks starting on Monday:
\* the weeks are day 2 and days 3-5, the months and the years days 2-4 and
\* day 5.
C21_Witness ==
    /\ pc = "built"
    /\ loc.start = 2 /\ loc.end = 5
    /\ loc.week_start = "Monday"
    /\ LET runs(list) == [i \in DOMAIN list |-> <<list[i].start, list[i].end>>]
       IN /\ runs(The(loc.rollups).weekly) = <<<<2, 2>>, <<3, 5>>>>
          /\ runs(The(loc.rollups).monthly) = <<<<2, 4>>, <<5, 5>>>>
          /\ runs(The(loc.rollups).yearly) = <<<<2, 4>>, <<5, 5>>>>

\* The instant at which the cached time entries that serve workspace_id and
\* the range were fetched: the timestamp of the entry cached under the exact
\* range or, without one, the latest timestamp of the cached ranges that are
\* merged; None when the timestamp is not a time.
CachedEntriesAt(c, workspace_id, range) ==
    LET exact == cached_time_entries(c, workspace_id, as_rfc3339(range)[1], as_rfc3339(range)[2])
        merged == {k \in TimeEntryKeys(c) : ~RangeSkipped(k, workspace_id, range[1], range[2])}
        times == {The(parse_cached_time(The(c).time_entries[k].fetched_at)) :
                     k \in {x \in merged :
                               parse_cached_time(The(c).time_entries[x].fetched_at) # None}}
    IN IF exact # None THEN parse_cached_time(The(exact).fetched_at)
       ELSE IF times = {} THEN None
       ELSE Some(CHOOSE t \in times : \A u \in times : u <= t)

\* A step by which refresh_data ends successfully.
CycleSucceeds == pc = "finish" /\ pc' = "idle"

\* C22: when a refresh cycle succeeds, "last refreshed at" becomes the current
\* time if the cycle issued a remote call and recorded no cache reason, and
\* otherwise the time at which the cached time entries it shows were fetched.
C22_LastRefreshStep ==
    CycleSucceeds =>
        IF calls # <<>> /\ loc.cache_reason = None
        THEN last_refresh' = Some(now)
        ELSE last_refresh' = CachedEntriesAt(cache, loc.workspace, date_range)
C22_LastRefresh == [][C22_LastRefreshStep]_vars
\* A manual refresh at instant 2 whose time-entries request failed showed the
\* entries cached at instant 1: "last refreshed at" is instant 1.
C22_Witness ==
    /\ pc = "idle"
    /\ mode = "Dashboard"
    /\ now = 2
    /\ calls # <<>>
    /\ calls[Len(calls)].op = "fetch_time_entries"
    /\ calls[Len(calls)].res = "failed"
    /\ status = "Using cached data due to API error."
    /\ last_refresh = Some(1)

\* A step that issues a remote call.
IssuesCall == calls' # calls /\ calls' # <<>>
\* The user asks for a refresh (key 'r').
UserRefreshRequest ==
    /\ Polling
    /\ mode \in {"Dashboard", "Error"}
    /\ mode' = "Loading"
    /\ needs_refresh'
    /\ UNCHANGED <<date_range, token, selected_workspace, refetch_plan>>
\* A handler other than the user's refresh request schedules a refresh cycle:
\* a date change, a login, a token change in the settings, the choice of a
\* workspace, or the end of a targeted re-fetch.
SchedulesReload == ~needs_refresh /\ needs_refresh' /\ ~UserRefreshRequest

\* C23: a remote call is issued only by a refresh cycle that runs with the
\* ForceApi intent or by a confirmed targeted re-fetch; the intent becomes
\* ForceApi only by the user's refresh request (and is kept, for the cycle that
\* follows the choice of a workspace, when such a cycle is suspended); when a
\* cycle or a re-fetch ends otherwise, the intent is CacheOnly; a date change,
\* a login, a settings change and the reload after a re-fetch schedule a
\* CacheOnly cycle, which issues no remote call.
C23_CallsStep ==
    /\ IssuesCall =>
          \/ pc = "refetch" /\ refetch_plan # None
          \/ pc # "refetch" /\ loc.allow_api
    /\ pc = "idle" /\ pc' # "idle" /\ pc' # "refetch" =>
          loc'.allow_api = (refresh_intent = "ForceApi")
    /\ pc # "idle" /\ pc # "refetch" => loc'.allow_api = loc.allow_api \/ pc' = "idle"
    /\ refresh_intent # "ForceApi" /\ refresh_intent' = "ForceApi" =>
          \/ UserRefreshRequest
          \/ pc = "workspaces" /\ loc.manual_refresh /\ mode' = "WorkspaceSelect"
    /\ pc # "idle" /\ pc' = "idle" /\ mode' # "WorkspaceSelect" =>
          refresh_intent' = "CacheOnly"
    /\ pc = "idle" /\ pc' = "idle" /\ needs_refresh /\ ~needs_refresh' =>
          refresh_intent' = "CacheOnly"
    /\ SchedulesReload =>
          \/ refresh_intent' = "CacheOnly"
          \/ mode = "WorkspaceSelect" /\ refresh_intent = "ForceApi"
C23_NoAutomaticCalls == [][C23_CallsStep]_vars
\* The first request of the run was a manual refresh that paid for a
\* time-entries request; the cycle of the second request has ended, with quota
\* left, without a remote call.
C23_Witness ==
    /\ pc = "idle"
    /\ ~needs_refresh
    /\ ops = 2
    /\ calls = <<>>
    /\ refresh_intent = "CacheOnly"
    /\ quota.used_calls = 1
    /\ mode \in {"Dashboard", "Error"}

\* C24: write-through.  After every operation that changes the in-memory quota
\* ledger (consume_quota, the day reset of ensure_quota_today) or the in-memory
\* cache (the update_cache_* functions, and the clearing of the cache by
\* handle_error on Unauthorized), the quota file and the cache file hold the
\* content of the in-memory state.  Loading the cache of another token at a
\* login or a token change is not one of these operations.
LoadsCacheForToken ==
    /\ pc = "idle" /\ pc' = "idle"
    /\ mode \in {"Login", "Settings"}
    /\ mode' = "Loading"

C24_WriteThroughStep ==
    /\ quota' # quota => quota_file' = Some(quota')
    /\ (cache' # cache /\ ~LoadsCacheForToken) => cache_file' = cache'

C24_WriteThrough == [][C24_WriteThroughStep]_vars

\* C25: a cache file whose version is not CACHE_FILE_VERSION is treated as
\* absent.  While such a file is on disk the in-memory cache holds nothing read
\* from it (it is None, or the empty new_cache of the token); the file is not
\* rewritten by a read, only by the write-through of a remote response; and
\* the refresh that follows behaves as with an empty cache: its workspaces
\* step either asks the remote or ends in Error with the no-cache message,
\* showing nothing.
OtherVersion(file) == file # None /\ The(file).version # CACHE_FILE_VERSION

NothingReadFromFile ==
    \/ cache = None
    \/ token_hash # None /\ cache = Some(new_cache(The(token_hash)))

C25_OtherVersionStep ==
    OtherVersion(cache_file) =>
        /\ cache_file' # cache_file =>
                /\ Len(calls') = Len(calls) + 1
                /\ cache_file' = cache'
                /\ ~OtherVersion(cache_file')
        /\ pc = "workspaces" =>
                \/ Len(calls') = Len(calls) + 1
                \/ /\ pc' = "idle" /\ mode' = "Error" /\ status' = no_cache_message
                   /\ view_vars' = view_vars /\ cache_file' = cache_file

C25_OtherVersionIsAbsent ==
    /\ [](OtherVersion(cache_file) => NothingReadFromFile)
    /\ [][C25_OtherVersionStep]_vars

\* A start-up refresh ran over a cache file of another version: it ended in
\* Error as with no cache file, and the file is as it was.
C25_Witness ==
    /\ OtherVersion(cache_file)
    /\ token = Some("tokA") /\ The(cache_file).token_hash = hash_token("tokA")
    /\ pc = "idle" /\ ~needs_refresh
    /\ mode = "Error" /\ status = no_cache_message

\* C26: an entry without a stop timestamp contributes to no derived view.  The
\* grouped totals and the dashboard total are computed from self.time_entries,
\* and the rollup totals from the entries rebuild_rollups hands to
\* build_rollups, whatever the order the cached ranges are visited in; none of
\* these entries is a running one, whether it came from the network or from
\* the cache.
C26_RunningEntriesNotCounted ==
    /\ \A e \in time_entries : e.stop
    /\ \A order \in ScanOrders(TimeEntryKeys(cache)) :
          \A e \in rollup_entries(cache, selected_workspace, time_entries, date_range, order) :
              e.stop

\* A refresh completed over a cached range that holds the running entry 3:
\* the views show entry 2 of the same day and not entry 3.
C26_Witness ==
    /\ pc = "idle" /\ mode = "Dashboard" /\ selected_workspace # None
    /\ \E key \in TimeEntryKeys(cache) :
          \E e \in The(cache).time_entries[key].data : ~e.stop /\ e.id = 3
    /\ \E e \in time_entries : e.id = 2
    /\ \A order \in ScanOrders(TimeEntryKeys(cache)) :
          {e.id : e \in rollup_entries(cache, selected_workspace, time_entries,
                                       date_range, order)} \cap {2, 3} = {2}

\* C27: the target of a day is 0 when the day is flagged non-working, or when
\* weekends are excluded and the day is a Saturday or a Sunday, and the
\* configured target otherwise; the target of a period is the sum of the
\* targets of its days from period.start to period.end.
\* Day 1 is a Saturday: the Saturdays and Sundays are the days 1, 2, 8, 9, ...
SaturdayOrSunday(date) == date % 7 \in {1, 2}
StatedDayTarget(date) ==
    IF date \in loc.non_working_days THEN 0
    ELSE IF ~loc.include_weekends /\ SaturdayOrSunday(date) THEN 0
    ELSE loc.target_hours
RECURSIVE SumOfDayTargets(_)
SumOfDayTargets(dates) ==
    IF dates = {} THEN 0
    ELSE LET date == CHOOSE d \in dates : TRUE
         IN StatedDayTarget(date) + SumOfDayTargets(dates \ {date})

C27_TargetHours ==
    pc \in {"target", "overtime"} =>
        /\ \A date \in TargetDates :
              target_hours_for_day(date, loc.target_hours, loc.include_weekends,
                                   loc.non_working_days) = StatedDayTarget(date)
        /\ The(loc.target)[1] = SumOfDayTargets(loc.period.start..loc.period.end)

\* Saturday to Tuesday with weekends excluded and the Monday flagged
\* non-working: the period's target is the Tuesday's 8 hours.
C27_Witness ==
    /\ pc = "target"
    /\ loc.period.start = 1 /\ loc.period.end = 4
    /\ ~loc.include_weekends /\ loc.non_working_days = {3}
    /\ loc.target_hours = 28800
    /\ loc.target = Some(<<28800, 1>>)

\* The seconds worked on the days `dates` of loc.daily.
RECURSIVE WorkedOn(_)
WorkedOn(dates) ==
    IF dates = {} THEN 0
    ELSE LET date == CHOOSE d \in dates : TRUE
         IN loc.daily[date].seconds + WorkedOn(dates \ {date})
\* The days the overtime worked so far is about.
Cutoff == IF loc.period.end <= loc.active_end THEN loc.period.end ELSE loc.active_end
DaysSoFar == loc.period.start..Cutoff
NotNegative(value) == IF value > 0 THEN value ELSE 0
\* The overtime is the same for every list of daily totals that agrees with
\* loc.daily on the days so far.
LaterDaysIgnored ==
    \A other \in DailyTotalLists :
        (\A date \in DaysSoFar : other[date] = loc.daily[date]) =>
            period_overtime_left_hours(loc.period, other, loc.target_hours,
                                       loc.include_weekends, loc.non_working_days,
                                       loc.active_end) = The(loc.overtime)

\* C28 (as stated): the overtime worked so far of a period is
\* max(0, worked - target) over the days from period.start to
\* min(period.end, active_range.end): never negative, 0 when that cutoff
\* precedes period.start, and unaffected by the later days.
C28_OvertimeSoFar ==
    pc = "overtime" =>
        /\ The(loc.overtime) = NotNegative(WorkedOn(DaysSoFar) - SumOfDayTargets(DaysSoFar))
        /\ The(loc.overtime) >= 0
        /\ Cutoff < loc.period.start => The(loc.overtime) = 0
        /\ LaterDaysIgnored

\* C28 (amended): the same, the difference worked - target being the delta of
\* the rollups, which is 0 when it lies within 0.005 hours of zero.
DeltaWithDeadZone(value) ==
    IF -DeadZoneSeconds < value /\ value < DeadZoneSeconds THEN 0 ELSE value
C28_OvertimeSoFarOfDelta ==
    pc = "overtime" =>
        /\ The(loc.overtime) = NotNegative(DeltaWithDeadZone(
                                   WorkedOn(DaysSoFar) - SumOfDayTargets(DaysSoFar)))
        /\ The(loc.overtime) >= 0
        /\ Cutoff < loc.period.start => The(loc.overtime) = 0
        /\ LaterDaysIgnored

\* Monday and Tuesday, 8 h 10 s worked on each against 8 h, the active range
\* ending on the Monday: the Tuesday is not counted, and the Monday's 10 s lie
\* in the dead zone.
C28_Witness ==
    /\ pc = "overtime"
    /\ loc.period.start = 3 /\ loc.period.end = 4 /\ loc.active_end = 3
    /\ loc.target_hours = 28800 /\ loc.non_working_days = {}
    /\ loc.daily[3].seconds = 28810 /\ loc.daily[4].seconds = 28810
    /\ loc.overtime = Some(0)

\* C29: when the resolved workspace list has more than one workspace and none
\* is selected, the cycle suspends in WorkspaceSelect: it returns before
\* projects, clients and entries are resolved, leaves the quota as it is and
\* selects nothing; a list of exactly one workspace is selected without
\* asking.  A suspended manual refresh leaves the intent ForceApi, nothing but
\* the pick ends the suspension, the pick keeps ForceApi, and the cycle it
\* starts runs with allow_api = true.
Suspends == pc = "workspaces" /\ mode' = "WorkspaceSelect"
C29_SuspendStep ==
    /\ Suspends =>
            /\ selected_workspace = None /\ selected_workspace' = None
            /\ Cardinality(workspace_list') > 1
            /\ pc' = "idle" /\ ~needs_refresh'
            /\ quota' = quota /\ quota_file' = quota_file
            /\ \A i \in DOMAIN calls' : calls'[i].op = "fetch_workspaces"
            /\ <<projects, time_entries, client_names>>' = <<projects, time_entries, client_names>>
            /\ refresh_intent' = IF loc.manual_refresh THEN "ForceApi" ELSE "CacheOnly"
    /\ (pc = "workspaces" /\ pc' = "projects") =>
            /\ selected_workspace' # None
            /\ selected_workspace = None =>
                    workspace_list' = {The(selected_workspace')}
    /\ mode = "WorkspaceSelect" =>
            /\ refresh_intent' = refresh_intent
            /\ mode' # mode =>
                    /\ mode' = "Loading" /\ needs_refresh'
                    /\ selected_workspace' # None
                    /\ The(selected_workspace') \in workspace_list
    /\ (pc = "idle" /\ pc' = "workspaces") =>
            loc'.allow_api = (refresh_intent = "ForceApi")

C29_WorkspaceSelectSuspends == [][C29_SuspendStep]_vars

\* The user pressed r with nothing cached, the remote listed two workspaces,
\* the user picked one: the cycle that follows is past its workspaces step
\* with allow_api = true and has spent no quota so far.
C29_Witness ==
    /\ pc = "projects" /\ loc.allow_api /\ loc.manual_refresh
    /\ Cardinality(workspace_list) = 2 /\ selected_workspace # None
    /\ ops = 2 /\ calls = <<>> /\ quota.used_calls = 0

\* The days the last re-fetch fetched, as its report names them.
RECURSIVE DaysOfSpans(_)
DaysOfSpans(spans) ==
    IF spans = <<>> THEN {} ELSE (spans[1][1]..spans[1][2]) \cup DaysOfSpans(Tail(spans))
RefetchedDays ==
    IF toast.message = "Refetched" THEN toast.scope[1]..toast.scope[2]
    ELSE IF toast.message = "Partial refetch" THEN DaysOfSpans(toast.cached)
    ELSE {}
\* The reload a re-fetch scheduled completes.
ReloadCompletes ==
    /\ pc = "finish" /\ pc' = "idle"
    /\ loc.resume_mode = Some("Rollups")
\* What rebuild_rollups hands to build_rollups for day D after the step, the
\* cached ranges visited in `order`.
RollupEntriesOn(D, order) ==
    {e \in rollup_entries(cache', selected_workspace', time_entries', date_range', order) :
        parse_entry_date(e) = Some(D)}
\* The entries the re-fetch of day D stored.
RefetchedEntries(D) ==
    ValidEntries(The(cached_time_entries(cache', The(selected_workspace'),
                                         Rfc3339(D), Rfc3339(D))).data)

\* C30 (as stated): after the targeted re-fetch of a day D succeeded and its
\* reload ran, the rollup total of D is computed from the re-fetched entries of
\* D, also when an older cached range, or the cache entry of the active date
\* range, holds other or since-deleted entries for D.
C30_RollupStep ==
    ReloadCompletes =>
        \A D \in RefetchedDays :
            \A order \in ScanOrders(TimeEntryKeys(cache')) :
                RollupEntriesOn(D, order) = RefetchedEntries(D)

C30_RollupShowsRefetchedDay == [][C30_RollupStep]_vars

\* The time-entry requests the running (or last) handler issued.
EntryRequests(log) == {i \in DOMAIN log : log[i].op = "fetch_time_entries"}

\* C31: quota is committed before the call it pays for.  In the refresh and in
\* the targeted re-fetch a time-entry request is issued only in a step that
\* first consumed one unit of today's ledger and wrote the ledger to the quota
\* file; the persisted count of a day never goes down; so whenever the handler
\* stops, the persisted used_calls of today is at least the number of
\* time-entry requests it issued.
C31_CommitStep ==
    /\ (Called /\ LastCall.op = "fetch_time_entries") =>
            /\ quota.date = today
            /\ quota'.used_calls = quota.used_calls + 1
            /\ quota'.date = today
            /\ quota_file' = Some(quota')
    /\ (quota_file # None /\ quota_file' # quota_file) =>
            /\ quota_file' # None
            /\ \/ The(quota_file').date # The(quota_file).date
               \/ The(quota_file').version # The(quota_file).version
               \/ The(quota_file').used_calls >= The(quota_file).used_calls
C31_PersistedCoversIssued ==
    EntryRequests(calls) # {} =>
        /\ quota_file # None
        /\ The(quota_file).date = today =>
                The(quota_file).used_calls >= Cardinality(EntryRequests(calls))
C31_QuotaCommittedFirst ==
    /\ []C31_PersistedCoversIssued
    /\ [][C31_CommitStep]_vars

\* A re-fetch of two days issued both requests: the persisted ledger of today
\* counts both.
C31_Witness ==
    /\ Cardinality(EntryRequests(calls)) = 2
    /\ \A i \in DOMAIN calls : calls[i].cycle = "refetch"
    /\ quota_file # None /\ The(quota_file).date = today
    /\ The(quota_file).used_calls = 2

\* A refresh cycle returns to the event loop.
CycleEnds == pc \notin {"idle", "refetch"} /\ pc' = "idle"
\* The remote was healthy for the cycle that ends: every request it got was
\* answered, and a workspaces request with at least one workspace.
RemoteHealthy ==
    /\ \A i \in DOMAIN calls' : calls'[i].res = "ok"
    /\ ~(\E i \in DOMAIN calls' : calls'[i].op = "fetch_workspaces"
         /\ status' = "No workspaces found.")
\* The cycle had quota for its time-entry request.
QuotaRemained ==
    \/ quota_remaining(quota') > 0
    \/ \E i \in DOMAIN calls' : calls'[i].paid

\* C32 (as stated): a refresh the user requested (ForceApi) with a valid
\* token, remaining quota and a healthy remote that returns at least one
\* workspace ends in Dashboard, or in WorkspaceSelect when a workspace must be
\* chosen, and never in Error; so it is from any Error mode.
C32_RecoveryStep ==
    (CycleEnds /\ loc.manual_refresh /\ RemoteHealthy /\ QuotaRemained) =>
        mode' \in {"Dashboard", "WorkspaceSelect"}

C32_ManualRefreshRecovers == [][C32_RecoveryStep]_vars

\* The cache keys of a cache c (an Option): the workspace list, and every
\* project list, client list and time-entry range stored.
CacheKeys(c) ==
    IF c = None THEN {}
    ELSE (IF The(c).workspaces # None THEN {<<"workspaces", 0>>} ELSE {})
         \cup {<<"projects", w>> : w \in DOMAIN The(c).projects}
         \cup {<<"clients", w>> : w \in DOMAIN The(c).clients}
         \cup {<<"time_entries", k>> : k \in DOMAIN The(c).time_entries}
\* The CachedData stored under a key of CacheKeys(c).
Cached(c, key) ==
    CASE key[1] = "workspaces" -> The(The(c).workspaces)
      [] key[1] = "projects" -> The(c).projects[key[2]]
      [] key[1] = "clients" -> The(c).clients[key[2]]
      [] key[1] = "time_entries" -> The(c).time_entries[key[2]]
\* The keys the cache keeps over a step, under the same credential.
KeptKeys ==
    IF cache # None /\ cache' # None /\ The(cache).token_hash = The(cache').token_hash
    THEN CacheKeys(cache) \cap CacheKeys(cache') ELSE {}
NeverBackwards ==
    \A key \in KeptKeys :
        The(parse_cached_time(Cached(cache', key).fetched_at))
            >= The(parse_cached_time(Cached(cache, key).fetched_at))
\* The key a successful time-entry request of this step is stored under.
WrittenEntriesKey ==
    IF pc = "refetch"
    THEN cache_key(loc.workspace, Rfc3339(date_span(The(refetch_plan)[1],
                                                    The(refetch_plan)[2])[loc.index]),
                   Rfc3339(date_span(The(refetch_plan)[1],
                                     The(refetch_plan)[2])[loc.index]))
    ELSE cache_key(loc.workspace, as_rfc3339(date_range)[1], as_rfc3339(date_range)[2])
EntriesStored == Called /\ LastCall.op = "fetch_time_entries" /\ LastCall.res = "ok"

\* C33 (as stated): the fetch timestamp of a cached value is refreshed only
\* when the value changes: a write of the value already stored leaves
\* fetched_at as it was, and fetched_at never moves backwards.
C33_TimestampStep ==
    /\ \A key \in KeptKeys :
          Cached(cache', key).data = Cached(cache, key).data =>
              Cached(cache', key).fetched_at = Cached(cache, key).fetched_at
    /\ NeverBackwards
C33_TimestampFollowsValue == [][C33_TimestampStep]_vars

\* C33 (amended): the fetch timestamp of a cached value is the instant of its
\* last write, whether or not the write changed the value: a stored answer to
\* a time-entry request carries the present instant, every key that changes
\* carries the present instant, and fetched_at never moves backwards.
C33_StampStep ==
    /\ EntriesStored =>
          /\ <<"time_entries", WrittenEntriesKey>> \in CacheKeys(cache')
          /\ Cached(cache', <<"time_entries", WrittenEntriesKey>>).fetched_at = Rfc3339(now)
    /\ \A key \in KeptKeys :
          Cached(cache', key) # Cached(cache, key) =>
              Cached(cache', key).fetched_at = Rfc3339(now)
    /\ NeverBackwards
C33_TimestampFollowsWrite == [][C33_StampStep]_vars

\* Day 1 of workspace 1 was cached at instant 0 by an earlier run; a request of
\* this run stored the same list again, and the entry carries the present instant.
C33_Witness ==
    /\ cache # None /\ cache_file = cache
    /\ The(cache).workspaces = Some(CachedData({1}, Rfc3339(0)))
    /\ cache_key(1, Rfc3339(1), Rfc3339(1)) \in TimeEntryKeys(cache)
    /\ The(cache).time_entries[cache_key(1, Rfc3339(1), Rfc3339(1))]
          = CachedData({TimeEntry(1, Rfc3339(1), TRUE, 1, 1)}, Rfc3339(now))
    /\ \E i \in DOMAIN calls : calls[i].op = "fetch_time_entries" /\ calls[i].res = "ok"

\* The keys of the cache whose entry a step stores or replaces.
RewrittenKeys ==
    {key \in CacheKeys(cache') :
        key \notin CacheKeys(Some(cache_mut(cache, token_hash)))
        \/ Cached(cache', key) # Cached(cache, key)}
\* A step that writes the cache in memory and on disk, under the same credential.
WritesCache ==
    /\ cache' # cache /\ cache' # None /\ cache_file' = cache'
    /\ The(cache').token_hash = cache_mut(cache, token_hash).token_hash

\* C34: a cache write replaces the entry of its own key and nothing else.
\* A step that stores the answer of a time-entry request for (workspace,
\* start, end) leaves every other time-entry key, the workspace list and all
\* project and client lists as they were, and the entry stored is one list
\* the remote returns for the range, the list the refresh goes on with, not
\* a merge with the list stored before; every other cache write replaces one
\* key and drops none.
C34_FrameStep ==
    /\ EntriesStored =>
          LET before == cache_mut(cache, token_hash)
              after == The(cache')
              key == WrittenEntriesKey
          IN  /\ cache' # None
              /\ DOMAIN after.time_entries = DOMAIN before.time_entries \cup {key}
              /\ \A k \in DOMAIN before.time_entries \ {key} :
                    after.time_entries[k] = before.time_entries[k]
              /\ after.workspaces = before.workspaces
              /\ after.projects = before.projects
              /\ after.clients = before.clients
              /\ after.token_hash = before.token_hash
              /\ after.time_entries[key].data \in RemoteTimeEntries(key[2], key[3])
              /\ pc = "entries" => loc'.entries = ValidEntries(after.time_entries[key].data)
    /\ WritesCache =>
          /\ Cardinality(RewrittenKeys) <= 1
          /\ CacheKeys(Some(cache_mut(cache, token_hash))) \subseteq CacheKeys(cache')
C34_WriteReplacesOwnKey == [][C34_FrameStep]_vars

\* Day 1 of workspace 1, cached with revision 1 of entry 1, was written again
\* with revision 2 only, next to a second range, the workspace list and the
\* project list cached before.
C34_Witness ==
    /\ cache # None /\ cache_file = cache
    /\ cache_key(1, Rfc3339(1), Rfc3339(1)) \in TimeEntryKeys(cache)
    /\ The(cache).time_entries[cache_key(1, Rfc3339(1), Rfc3339(1))].data
          = {TimeEntry(1, Rfc3339(1), TRUE, 1, 2)}
    /\ Cardinality(TimeEntryKeys(cache)) >= 2
    /\ The(cache).workspaces = Some(CachedData({1}, Rfc3339(0)))
    /\ 1 \in DOMAIN The(cache).projects
    /\ The(cache).projects[1] = CachedData({Project(1, 1, FALSE)}, Rfc3339(0))

\* The positions of the orphaned-project backfill.
Backfilling == {"backfill", "backfill_each"}
\* The project ids the stopped entries of the cycle name that the resolved
\* project list lacks.
OrphanIds ==
    {e.project_id : e \in {x \in loc.entries : x.stop /\ x.project_id # 0}}
        \ {p.id : p \in loc.projects}
BackfillCall(op) == pc \in Backfilling /\ Called /\ LastCall.op = op

\* C35: the orphaned-project backfill calls the remote only when allow_api is
\* true and a stopped entry names a project id the resolved project list
\* lacks; it fetches the whole project list exactly once, then fetches one by
\* one only ids still absent from the list it holds, each at most once, and a
\* failure other than Unauthorized of any of these calls leaves the refresh
\* running.
C35_BackfillStep ==
    /\ pc' \in Backfilling =>
          /\ loc'.allow_api
          /\ pc \in Backfilling \cup {"entries"}
          /\ pc' = "backfill" => pc = "entries"
    /\ pc \in Backfilling =>
          /\ loc.allow_api /\ OrphanIds # {}
          /\ loc.missing \subseteq OrphanIds
          /\ Called => LastCall.op \in {"fetch_projects", "fetch_project"}
    /\ pc = "backfill" =>
          /\ BackfillCall("fetch_projects")
          /\ pc' # "backfill"
    /\ pc = "backfill_each" =>
          /\ loc.missing \cap {p.id : p \in loc.refreshed} = {}
          /\ ~BackfillCall("fetch_projects")
    /\ BackfillCall("fetch_project") =>
          /\ Cardinality(loc.missing \ loc'.missing) = 1 \/ pc' = "idle"
          /\ loc'.missing \subseteq loc.missing
          /\ pc' \in {"backfill_each", "idle"}
    /\ (pc \in Backfilling /\ Called /\ LastCall.res \notin {"ok", "Unauthorized"}) =>
          /\ pc' = "backfill_each"
          /\ mode' = mode /\ status' = status /\ cache' = cache /\ token' = token
    /\ (pc \in Backfilling /\ pc' = "idle") =>
          Called /\ LastCall.res = "Unauthorized"
C35_BackfillCalls == [][C35_BackfillStep]_vars

\* A cycle on the dashboard whose backfill could not fetch the project list
\* (a failure other than Unauthorized), then fetched the missing project 2 by itself.
C35_Witness ==
    /\ pc = "idle" /\ mode = "Dashboard"
    /\ Project(2, 0, FALSE) \in projects
    /\ \E h, i, j \in DOMAIN calls :
          /\ h < i /\ i < j
          /\ calls[h].op = "fetch_time_entries"
          /\ calls[i].op = "fetch_projects" /\ calls[i].res = "failed"
          /\ calls[j].op = "fetch_project" /\ calls[j].res = "ok"

\* The positions at which refresh_data resolves client names.
ResolvingClients == {"clients", "clients_again"}
\* Some project of the cycle has a client id and no denormalized client name.
SomeNameMissing == \E p \in loc.projects : p.client_id # 0 /\ ~p.client_name
\* The client names the projects of the cycle carry themselves.
KnownNames == {p.client_id : p \in {x \in loc.projects : x.client_id # 0 /\ x.client_name}}
ClientListUnavailable ==
    /\ SomeNameMissing
    /\ cache = None \/ loc.workspace \notin DOMAIN The(cache).clients
    /\ \/ ~loc.allow_api
       \/ Called /\ LastCall.res = "failed"

\* C36: client-name resolution reads or writes the client cache, or calls
\* the remote, only when some project has a client id and no denormalized
\* client name, and it never stops the refresh: with no cached client list
\* and either the API not allowed or a failure other than Unauthorized of
\* fetch_clients, the refresh goes on with the names the projects carry.
C36_ClientNamesStep ==
    pc \in ResolvingClients =>
        /\ (Called \/ cache' # cache \/ cache_file' # cache_file) =>
              /\ SomeNameMissing
              /\ LastCall.op = "fetch_clients"
              /\ loc.allow_api
        /\ ~SomeNameMissing => pc' # "idle" /\ loc'.client_names = KnownNames
        /\ ClientListUnavailable =>
              /\ pc' = IF pc = "clients" THEN "entries" ELSE "finish"
              /\ loc'.client_names = KnownNames
              /\ mode' = mode /\ status' = status /\ cache' = cache /\ token' = token
        /\ pc' = "idle" => Called /\ LastCall.res = "Unauthorized"
        /\ pc' # "idle" => KnownNames \subseteq loc'.client_names
C36_ClientNamesNeverBlock == [][C36_ClientNamesStep]_vars

\* A cycle on the dashboard whose fetch_clients failed while project 1 named
\* client 1 without a client name: no client name is shown.
C36_Witness ==
    /\ pc = "idle" /\ mode = "Dashboard"
    /\ Project(1, 1, FALSE) \in projects
    /\ client_names = {}
    /\ \E i \in DOMAIN calls : calls[i].op = "fetch_clients" /\ calls[i].res = "failed"

\* The positions inside a run of refresh_data.
Refreshing == pc \notin {"idle", "refetch"}
\* A step that ends a run of refresh_data: its first step when it returns at
\* once (no token), or a later step that returns.
RefreshReturns ==
    \/ pc = "idle" /\ needs_refresh /\ ~needs_refresh' /\ pc' = "idle"
    \/ Refreshing /\ pc' = "idle"
ResumeMode == IF Refreshing THEN loc.resume_mode ELSE refresh_resume_mode
LoadingAwaitsRefresh == (pc = "idle" /\ mode = "Loading") => needs_refresh
C37_ReturnStep ==
    /\ Refreshing => ~needs_refresh
    /\ RefreshReturns =>
          /\ ~needs_refresh'
          /\ mode' \in {"Login", "Error", "WorkspaceSelect", "Dashboard"} \cup ResumeMode
          /\ mode' # "Loading"
    /\ ResumeMode \subseteq {"Rollups"}

\* C37: Loading is never a resting state.  Whenever the program waits for
\* input or for its next refresh with mode = Loading, needs_refresh is true;
\* a run of refresh_data holds needs_refresh false from its first step on and
\* returns with the mode Login, Error, WorkspaceSelect, Dashboard or the
\* resume mode (Rollups), never Loading.
C37_LoadingNeverRests == []LoadingAwaitsRefresh /\ [][C37_ReturnStep]_vars

\* The reload after a rollup re-fetch returned to the rollups view.
C37_Witness ==
    /\ pc = "idle" /\ mode = "Rollups" /\ ~needs_refresh
    /\ toast.message = "Refetched" /\ calls = <<>>
    /\ refresh_resume_mode = None

\* The data a successful cycle shows.  The grouped totals and total_hours are
\* computed from these, and the rollups rebuilt, in the statements that
\* assign them (refresh_data, lines 577-605).
Displayed == <<projects, time_entries, client_names, last_refresh>>
\* A step of a refresh cycle: the first step of refresh_data or a later one.
CycleStep == (pc = "idle" /\ needs_refresh /\ ~needs_refresh') \/ Refreshing

\* C38: a refresh cycle updates the displayed data all or nothing.  The one
\* step that changes projects, time_entries, client_names or last_refresh is
\* the last step of a cycle that succeeds, which sets all of them from what
\* the cycle resolved; a cycle that returns in Error, Login or
\* WorkspaceSelect changes none of them at any of its steps.
C38_DisplayStep ==
    /\ (CycleStep /\ ~CycleSucceeds) => Displayed' = Displayed
    /\ (CycleStep /\ pc' = "idle" /\ mode' \in {"Error", "Login", "WorkspaceSelect"}) =>
          /\ ~CycleSucceeds
          /\ Displayed' = Displayed
    /\ CycleSucceeds =>
          /\ projects' = loc.projects
          /\ time_entries' = loc.entries
          /\ client_names' = loc.client_names
          /\ last_refresh' = LastRefresh(loc.allow_api, loc.cache_reason,
                                         loc.cache_timestamp, now)
          /\ mode' \notin {"Error", "Login", "WorkspaceSelect"}
    /\ Displayed' # Displayed => CycleSucceeds
AdoptsCache ==
    /\ cache' # None
    /\ cache = None \/ The(cache').token_hash # The(cache).token_hash
CacheOfCredential ==
    /\ token_hash # None => (token # None /\ The(token_hash) = hash_token(The(token)))
    /\ cache # None =>
          /\ token # None
          /\ The(cache).token_hash = hash_token(The(token))
C39_CredentialStep ==
    /\ AdoptsCache =>
          /\ token' # None
          /\ The(cache').token_hash = hash_token(The(token'))
    /\ token' # token =>
          \/ cache' = None
          \/ token' # None /\ The(cache').token_hash = hash_token(The(token'))

\* C39: a cache held in memory belongs to the current token.  In every
\* state with a cache in memory its token_hash is the hash of the token; a
\* cache read from the file is adopted only with a matching token_hash; and
\* a step that changes the token (login, the settings screen, Unauthorized)
\* drops the cache or replaces it by one of the new token.
C39_CacheFollowsToken == []CacheOfCredential /\ [][C39_CredentialStep]_vars

\* After a login with tokB over the cache file tokB left, that cache is
\* served on the dashboard.
C39_Witness ==
    /\ pc = "idle" /\ mode = "Dashboard"
    /\ token = Some("tokB")
    /\ cache # None /\ The(cache).token_hash = hash_token("tokB")
    /\ time_entries # {}

\* The cached ranges of workspace w that intersect the days first..last.
IntersectingKeys(w, first, last) ==
    {key \in TimeEntryKeys(cache) :
        /\ parse_cache_key_bounds(key) # None
        /\ The(parse_cache_key_bounds(key))[1] = w
        /\ The(parse_cache_key_bounds(key))[3] >= first
        /\ The(parse_cache_key_bounds(key))[2] <= last}
\* Some intersecting cached range holds an entry that starts within first..last.
EntryCachedWithin(w, first, last) ==
    \E key \in IntersectingKeys(w, first, last) :
        \E e \in The(cache).time_entries[key].data :
            /\ parse_rfc3339_date(e.start) # None
            /\ The(parse_rfc3339_date(e.start)) \in first..last
NoExactKey(w, first, last) ==
    cache # None /\ cache_key(w, Rfc3339(first), Rfc3339(last)) \notin TimeEntryKeys(cache)
\* Between handlers and where a refresh resolves its time entries, the
\* lookup answers alike for every workspace, every range without an exact
\* key and every iteration order of the map.
MergeAnswersIffEntry ==
    pc \in {"idle", "entries"} =>
    \A w \in WsIds, range \in Ranges, order \in ScanOrders(TimeEntryKeys(cache)) :
        NoExactKey(w, range[1], range[2]) =>
            LET found == cached_time_entries_for_range(
                            cache, w, Rfc3339(range[1]), Rfc3339(range[2]), order, now)
            IN  /\ found # None <=> EntryCachedWithin(w, range[1], range[2])
                /\ found # None =>
                      /\ The(found).data # {}
                      /\ \A e \in The(found).data :
                            The(parse_rfc3339_date(e.start)) \in range[1]..range[2]
C40_CacheOnlyStep ==
    (/\ pc = "entries" /\ ~loc.allow_api
     /\ NoExactKey(loc.workspace, date_range[1], date_range[2])
     /\ ~EntryCachedWithin(loc.workspace, date_range[1], date_range[2])) =>
        /\ mode' = "Error"
        /\ status' = no_cache_message
        /\ pc' = "idle"
        /\ Displayed' = Displayed

\* C40: with no exact key stored, the range-merge lookup returns a value if
\* and only if some intersecting cached range of the workspace holds an
\* entry that starts within [start, end]; when the intersecting ranges hold
\* none (every day of the span was fetched again and came back empty) the
\* lookup returns nothing and a CacheOnly refresh ends in Error with the
\* no-cache message.
C40_MergeNeedsAnEntry == []MergeAnswersIffEntry /\ [][C40_CacheOnlyStep]_vars

\* Both days of the range were fetched again and came back empty; the
\* reload, which cached ranges cover but no entry, ended in Error.
C40_Witness ==
    /\ pc = "idle" /\ mode = "Error" /\ status = no_cache_message
    /\ toast.message = "Refetched"
    /\ selected_workspace # None
    /\ NoExactKey(The(selected_workspace), date_range[1], date_range[2])
    /\ IntersectingKeys(The(selected_workspace), date_range[1], date_range[2]) # {}
    /\ \A key \in IntersectingKeys(The(selected_workspace), date_range[1], date_range[2]) :
          The(cache).time_entries[key].data = {}

====
